---- MODULE Spec2Model ----
(***************************************************************************)
(* A model of the TCP chat server of main.go (package main) and of its     *)
(* copy in package internal: the accept loop (Server.Start), one session   *)
(* per connection (handleConnection), the command handlers, the two        *)
(* broadcast scopes and the room registry.                                 *)
(*                                                                         *)
(* Text is a sequence of one-character strings; a fixed text of the server *)
(* that nothing parses is kept as one element.  out[c] is the sequence of  *)
(* conn.Write calls made on connection c, each the text it wrote.          *)
(*                                                                         *)
(* A step is one critical section of the shared mutex, or one access to    *)
(* shared state that the code makes without the mutex.  A session that     *)
(* waits in mutex.Lock() stays at a pc whose step is guarded by mutex = 0. *)
(***************************************************************************)
EXTENDS Integers, Sequences, FiniteSets, TLC

(***************************************************************************)
(* Bounds of the model.                                                    *)
(***************************************************************************)
\* connections the listener accepts in one run
MaxConns == 3
\* reads of a client line (or of its failure) by all sessions in one run
MaxReads == 3
\* seconds the clock may advance in one run
MaxTime == 1
\* connections opened against a nearly full server (specification SpecCap)
CapConns == 2
\* connections that negotiate a name (specification SpecValidate)
ValidateConns == 2
\* connections of the run in which a member leaves during a fan-out
\* (specification SpecClose)
CloseConns == 2

(***************************************************************************)
(* Program constants.                                                      *)
(***************************************************************************)
\* NewServer: maxClients: 10
maxClients == 10
\* validateName: len(name) < 2
MinNameLen == 2
\* validateName: len(name) > 20
MaxNameLen == 20

MessageTypeChat == 0
MessageTypeSystem == 1
MessageTypePrivate == 2
MessageTypeError == 3

Logo == <<"Welcome to TCP-Chat!", "\n", "[ENTER YOUR NAME]:">>

\* clients registered before the run of SpecCap starts
Preload == maxClients - 1

(***************************************************************************)
(* package strings / fmt, on sequences of characters.                      *)
(***************************************************************************)
Uppers == <<"A","B","C","D","E","F","G","H","I","J","K","L","M",
            "N","O","P","Q","R","S","T","U","V","W","X","Y","Z">>
Lowers == <<"a","b","c","d","e","f","g","h","i","j","k","l","m",
            "n","o","p","q","r","s","t","u","v","w","x","y","z">>

ToLower(ch) ==
    IF \E i \in 1..26 : Uppers[i] = ch
    THEN Lowers[CHOOSE i \in 1..26 : Uppers[i] = ch]
    ELSE ch

\* strings.EqualFold
EqualFold(a, b) ==
    /\ Len(a) = Len(b)
    /\ \A i \in 1..Len(a) : ToLower(a[i]) = ToLower(b[i])

IsSpace(ch) == ch \in {" ", "\t", "\n", "\r"}

RECURSIVE TrimLeft(_)
TrimLeft(s) ==
    IF s # <<>> /\ IsSpace(Head(s)) THEN TrimLeft(Tail(s)) ELSE s

RECURSIVE TrimRight(_)
TrimRight(s) ==
    IF s # <<>> /\ IsSpace(s[Len(s)])
    THEN TrimRight(SubSeq(s, 1, Len(s) - 1))
    ELSE s

\* strings.TrimSpace
TrimSpace(s) == TrimRight(TrimLeft(s))

\* strings.HasPrefix(s, "/")
HasSlashPrefix(s) == s # <<>> /\ Head(s) = "/"

\* strings.TrimPrefix(s, "/")
TrimSlashPrefix(s) == IF HasSlashPrefix(s) THEN Tail(s) ELSE s

\* the first field of s (s starts with a non-space character)
RECURSIVE FirstField(_)
FirstField(s) ==
    IF s = <<>> \/ IsSpace(Head(s)) THEN <<>>
    ELSE <<Head(s)>> \o FirstField(Tail(s))

\* strings.Fields
RECURSIVE Fields(_)
Fields(s) ==
    LET t == TrimLeft(s) IN
    IF t = <<>> THEN <<>>
    ELSE LET f == FirstField(t) IN
         <<f>> \o Fields(SubSeq(t, Len(f) + 1, Len(t)))

\* strings.Join
RECURSIVE Join(_, _)
Join(parts, sep) ==
    IF parts = <<>> THEN <<>>
    ELSE IF Len(parts) = 1 THEN parts[1]
    ELSE parts[1] \o sep \o Join(Tail(parts), sep)

Digits == <<"0","1","2","3","4","5","6","7","8","9">>

\* fmt's %d, for a number that is not negative
RECURSIVE Itoa(_)
Itoa(n) ==
    IF n < 10 THEN <<Digits[n + 1]>>
    ELSE Itoa(n \div 10) \o <<Digits[(n % 10) + 1]>>

\* Time.Format("2006-01-02 15:04:05") of the t-th second of the run
TimeFormat(t) ==
    <<"2024-01-20 15:48:">> \o (IF t < 10 THEN <<"0">> ELSE <<>>) \o Itoa(t)

\* every order in which a range over a map with these keys may produce them
RECURSIVE Orders(_)
Orders(S) ==
    IF S = {} THEN {<<>>}
    ELSE UNION {{<<x>> \o o : o \in Orders(S \ {x})} : x \in S}

(***************************************************************************)
(* State.                                                                  *)
(***************************************************************************)
VARIABLES
    pc,        \* where each connection's session stands
    mutex,     \* Server.mutex: 0 when free, else the session holding it
    clients,   \* Server.clients: the connections in the Client Registry
    client,    \* the Client of each connection: name, room
    rooms,     \* Server.rooms: room name -> [clients, messages]
    messages,  \* Server.messages: the global history
    out,       \* the writes made on each connection
    local,     \* each session's local variables
    now,       \* the clock, in seconds
    budget,    \* reads of a client's input the run may still make
    joinMark,  \* per connection: the target history and the length of out
               \* when its last join inserted it (history, for the claims)
    peerClosed \* the connections whose client has closed its end

vars == <<pc, mutex, clients, client, rooms, messages, out, local, now,
          budget, joinMark, peerClosed>>

(***************************************************************************)
(* Messages.                                                               *)
(***************************************************************************)
Message(type, from, to, content, ts) ==
    [Type |-> type, From |-> from, To |-> to, Content |-> content,
     Timestamp |-> ts]

NoMessage == Message(MessageTypeError, <<>>, <<>>, <<>>, 0)

formatMessage(msg) ==
    LET timestamp == TimeFormat(msg.Timestamp) IN
    IF msg.Type = MessageTypePrivate
    THEN <<"[">> \o timestamp \o <<"]", "[", "PM from ">> \o msg.From
         \o <<"]", ":", " ">> \o msg.Content
    ELSE IF msg.Type = MessageTypeSystem
    THEN <<"[">> \o timestamp \o <<"]", " ">> \o msg.Content
    ELSE IF msg.Type = MessageTypeError
    THEN <<"[">> \o timestamp \o <<"]", "[", "ERROR", "]", " ">> \o msg.Content
    ELSE <<"[">> \o timestamp \o <<"]", "[">> \o msg.From
         \o <<"]", ":", " ">> \o msg.Content

\* conn.Write(text) on connection c; on a connection whose peer has closed
\* the write fails and the callers ignore the error
Write(o, c, text) ==
    IF c \in peerClosed THEN o ELSE [o EXCEPT ![c] = Append(@, text)]

\* Client.sendMessage
sendMessage(o, c, msg) == Write(o, c, formatMessage(msg) \o <<"\n">>)

\* Client.sendMessage of each message of a history, in order
RECURSIVE sendAll(_, _, _)
sendAll(o, c, msgs) ==
    IF msgs = <<>> THEN o
    ELSE sendAll(sendMessage(o, c, Head(msgs)), c, Tail(msgs))

\* a broadcast loop that writes to every connection, whatever its target set
fanOutEverywhere(o, to, msg) ==
    [d \in DOMAIN o |-> Append(o[d], formatMessage(msg) \o <<"\n">>)]

\* a broadcast loop that returns at the first write that fails, when that
\* write is the first of the loop
fanOutStops(o, to, msg) ==
    [d \in DOMAIN o |-> IF d \in to /\ to \cap peerClosed = {}
                        THEN Append(o[d], formatMessage(msg) \o <<"\n">>)
                        ELSE o[d]]

\* the writes of a broadcast loop over the connections in `to`
fanOut(o, to, msg) ==
    [d \in DOMAIN o |-> IF d \in to \ peerClosed
                        THEN Append(o[d], formatMessage(msg) \o <<"\n">>)
                        ELSE o[d]]

(***************************************************************************)
(* Rooms and session locals.                                               *)
(***************************************************************************)
General == <<"g","e","n","e","r","a","l">>

NoLocal == [arg |-> <<>>, snap |-> <<>>, msg |-> NoMessage, text |-> <<>>,
            visited |-> {}, start |-> {}, target |-> 0, ret |-> "Active"]

NoMark == [hist |-> <<>>, outLen |-> 0, room |-> <<>>]

NewRoom == [clients |-> {}, messages |-> <<>>]

\* NewServer
Init ==
    /\ pc = <<>>
    /\ mutex = 0
    /\ clients = {}
    /\ client = <<>>
    /\ rooms = (General :> NewRoom)
    /\ messages = <<>>
    /\ out = <<>>
    /\ local = <<>>
    /\ now = 0
    /\ budget = MaxReads
    /\ joinMark = <<>>
    /\ peerClosed = {}

\* the connections accepted so far
Conns == DOMAIN pc

\* the rooms whose member set holds connection c
RoomsOf(c) == {r \in DOMAIN rooms : c \in rooms[r].clients}

Goto(c, label) == pc' = [pc EXCEPT ![c] = label]

(***************************************************************************)
(* Name validation.                                                        *)
(***************************************************************************)
Nil == <<>>

\* Server.isNameTaken, over a registry and its Client records
isNameTaken(name) ==
    \E d \in clients : EqualFold(client[d].name, name)

\* a validation that applies the length rule before the rule for the empty
\* name
validateNameShortFirst(candidate) ==
    LET name == TrimSpace(candidate) IN
    IF Len(name) < MinNameLen
    THEN <<"name too short (minimum 2 characters)">>
    ELSE IF name = <<>> THEN <<"name cannot be empty">>
    ELSE IF Len(name) > MaxNameLen
    THEN <<"name too long (maximum 20 characters)">>
    ELSE IF isNameTaken(name) THEN <<"name already taken">>
    ELSE Nil

\* Server.validateName: Nil, or the error
validateName(candidate) ==
    LET name == TrimSpace(candidate) IN
    IF name = <<>> THEN <<"name cannot be empty">>
    ELSE IF Len(name) < MinNameLen
    THEN <<"name too short (minimum 2 characters)">>
    ELSE IF Len(name) > MaxNameLen
    THEN <<"name too long (maximum 20 characters)">>
    ELSE IF isNameTaken(name) THEN <<"name already taken">>
    ELSE Nil

(***************************************************************************)
(* Server.Start: the accept loop.                                          *)
(***************************************************************************)
\* the capacity check of the accept loop
isFull == Cardinality(clients) >= maxClients

\* an accept loop that starts a session whatever the registry holds
AcceptAll(limit) ==
    LET c == Cardinality(Conns) + 1 IN
    /\ c <= limit
    /\ mutex = 0
    /\ pc' = pc @@ (c :> "Connecting")
    /\ out' = out @@ (c :> <<>>)
    /\ client' = client @@ (c :> [name |-> <<>>, room |-> <<>>])
    /\ local' = local @@ (c :> NoLocal)
    /\ joinMark' = joinMark @@ (c :> NoMark)
    /\ UNCHANGED <<mutex, clients, rooms, messages, now, budget, peerClosed>>

\* listener.Accept returns a fresh connection; the check runs under the mutex
Accept(limit) ==
    LET c == Cardinality(Conns) + 1 IN
    /\ c <= limit
    /\ mutex = 0
    /\ pc' = pc @@ (c :> IF isFull THEN "Rejected" ELSE "Connecting")
    /\ out' = out @@ (c :> IF isFull
                           THEN <<<<"Chat is full. Please try again later.", "\n">>>>
                           ELSE <<>>)
    /\ client' = client @@ (c :> [name |-> <<>>, room |-> <<>>])
    /\ local' = local @@ (c :> NoLocal)
    /\ joinMark' = joinMark @@ (c :> NoMark)
    /\ UNCHANGED <<mutex, clients, rooms, messages, now, budget, peerClosed>>

\* the client of connection c closes its end: no line of it is read any
\* more, and a write to the connection fails
PeerClose(c) ==
    /\ pc[c] \notin {"Rejected", "Closed"}
    /\ c \notin peerClosed
    /\ peerClosed' = peerClosed \cup {c}
    /\ UNCHANGED <<pc, mutex, clients, client, rooms, messages, out, local,
                   now, budget, joinMark>>

\* time passes
Tick ==
    /\ now < MaxTime
    /\ now' = now + 1
    /\ UNCHANGED <<pc, mutex, clients, client, rooms, messages, out, local,
                   budget, joinMark, peerClosed>>

(***************************************************************************)
(* handleConnection: banner and name negotiation.                          *)
(***************************************************************************)
WriteLogo(c) ==
    /\ pc[c] = "Connecting"
    /\ out' = Write(out, c, Logo)
    /\ Goto(c, "Naming")
    /\ UNCHANGED <<mutex, clients, client, rooms, messages, local, now,
                   budget, joinMark, peerClosed>>

\* a naming loop that takes the first line as the name
ReadNameLax(c, line) ==
    /\ pc[c] = "Naming"
    /\ c \notin peerClosed
    /\ budget > 0
    /\ budget' = budget - 1
    /\ Goto(c, "Register")
    /\ local' = [local EXCEPT ![c].arg = TrimSpace(line)]
    /\ UNCHANGED <<mutex, clients, client, rooms, messages, out, now,
                   joinMark, peerClosed>>

\* one round of the naming loop: the registry is read without the mutex
ReadName(c, line) ==
    /\ pc[c] = "Naming"
    /\ c \notin peerClosed
    /\ budget > 0
    /\ budget' = budget - 1
    /\ LET name == TrimSpace(line)
           err == validateName(name) IN
       IF err # Nil
       THEN /\ out' = Write(out, c, <<"Invalid name: ">> \o err
                            \o <<"\n", "Please enter another name: ">>)
            /\ UNCHANGED <<pc, local>>
       ELSE /\ Goto(c, "Register")
            /\ local' = [local EXCEPT ![c].arg = name]
            /\ UNCHANGED out
    /\ UNCHANGED <<mutex, clients, client, rooms, messages, now, joinMark, peerClosed>>

\* a naming loop that leaves by the disconnect path when its read fails
NameReadFailCleanup(c) ==
    /\ pc[c] = "Naming"
    /\ budget > 0
    /\ budget' = budget - 1
    /\ Goto(c, "Leaving")
    /\ UNCHANGED <<mutex, clients, client, rooms, messages, out, local, now,
                   joinMark, peerClosed>>

\* the read of the name fails: the session returns and closes the connection
NameReadFail(c) ==
    /\ pc[c] = "Naming"
    /\ budget > 0
    /\ budget' = budget - 1
    /\ Goto(c, "Closed")
    /\ UNCHANGED <<mutex, clients, client, rooms, messages, out, local, now,
                   joinMark, peerClosed>>

\* s.clients[conn] = client, under the mutex; then joinRoom(client, "general")
Register(c) ==
    /\ pc[c] = "Register"
    /\ mutex = 0
    /\ client' = [client EXCEPT ![c].name = local[c].arg]
    /\ clients' = clients \cup {c}
    /\ local' = [local EXCEPT ![c].arg = General]
    /\ Goto(c, "JoinLock")
    /\ UNCHANGED <<mutex, rooms, messages, out, now, budget, joinMark, peerClosed>>

(***************************************************************************)
(* Rooms: joinRoom, createRoom, broadcastToRoom.                           *)
(***************************************************************************)
\* joinRoom: delete(oldRoom.clients, c.conn), then room.clients[c.conn] = c
moveClient(rs, c, old, target) ==
    LET left == IF old # <<>> /\ old \in DOMAIN rs
                THEN [rs EXCEPT ![old].clients = @ \ {c}]
                ELSE rs
    IN [left EXCEPT ![target].clients = @ \cup {c}]

\* broadcastToRoom: room.messages = append(room.messages, msg), the slice
\* header having been read as `seen`
appendToRoom(rs, r, seen, msg) ==
    [rs EXCEPT ![r].messages = Append(seen, msg)]

\* the system message of joinRoom
joinNotice(name, ts) ==
    Message(MessageTypeSystem, <<>>, <<>>, name \o <<" joined the room">>, ts)

\* joinRoom up to the insertion: Lock, lookup, removal from the old room,
\* insertion into the target, c.room = roomName
JoinLock(c) ==
    LET target == local[c].arg IN
    /\ pc[c] = "JoinLock"
    /\ mutex = 0
    /\ IF target \notin DOMAIN rooms
       THEN /\ Goto(c, "ReplyErr")
            /\ local' = [local EXCEPT ![c].text = <<"room does not exist">>]
            /\ UNCHANGED <<mutex, client, rooms, joinMark>>
       ELSE /\ mutex' = c
            /\ rooms' = moveClient(rooms, c, client[c].room, target)
            /\ client' = [client EXCEPT ![c].room = target]
            /\ joinMark' = [joinMark EXCEPT ![c] =
                              [hist |-> rooms[target].messages,
                               outLen |-> Len(out[c]),
                               room |-> target]]
            /\ Goto(c, "JoinReplay")
            /\ UNCHANGED local
    /\ UNCHANGED <<clients, messages, out, now, budget, peerClosed>>

\* joinRoom: for _, msg := range room.messages { c.sendMessage(msg) }
JoinReplay(c) ==
    /\ pc[c] = "JoinReplay"
    /\ out' = sendAll(out, c, rooms[client[c].room].messages)
    /\ Goto(c, "JoinRead")
    /\ UNCHANGED <<mutex, clients, client, rooms, messages, local, now,
                   budget, joinMark, peerClosed>>

\* joinRoom: the join notice is built and broadcastToRoom reads room.messages
JoinRead(c) ==
    /\ pc[c] = "JoinRead"
    /\ local' = [local EXCEPT ![c].snap = rooms[client[c].room].messages,
                              ![c].msg = joinNotice(client[c].name, now)]
    /\ Goto(c, "JoinNotify")
    /\ UNCHANGED <<mutex, clients, client, rooms, messages, out, now,
                   budget, joinMark, peerClosed>>

\* joinRoom: broadcastToRoom stores the history and writes to the members;
\* the deferred Unlock
JoinNotify(c) ==
    LET r == client[c].room IN
    /\ pc[c] = "JoinNotify"
    /\ rooms' = appendToRoom(rooms, r, local[c].snap, local[c].msg)
    /\ out' = fanOut(out, rooms[r].clients, local[c].msg)
    /\ mutex' = 0
    /\ local' = [local EXCEPT ![c] = NoLocal]
    /\ Goto(c, "Active")
    /\ UNCHANGED <<clients, client, messages, now, budget, joinMark, peerClosed>>

\* a createRoom that puts its caller into the new room itself
CreateLockInsert(c) ==
    LET roomName == local[c].arg IN
    /\ pc[c] = "CreateLock"
    /\ mutex = 0
    /\ IF roomName \in DOMAIN rooms
       THEN /\ Goto(c, "ReplyErr")
            /\ local' = [local EXCEPT ![c].text = <<"room already exists">>]
            /\ UNCHANGED <<mutex, rooms>>
       ELSE /\ mutex' = c
            /\ rooms' = rooms @@ (roomName :> [clients |-> {c},
                                               messages |-> <<>>])
            /\ Goto(c, "JoinLock")
            /\ UNCHANGED local
    /\ UNCHANGED <<clients, client, messages, out, now, budget, joinMark, peerClosed>>

\* a createRoom that returns its error without the Unlock
CreateLockKeep(c) ==
    LET roomName == local[c].arg IN
    /\ pc[c] = "CreateLock"
    /\ mutex = 0
    /\ IF roomName \in DOMAIN rooms
       THEN /\ Goto(c, "ReplyErr")
            /\ local' = [local EXCEPT ![c].text = <<"room already exists">>]
            /\ mutex' = c
            /\ UNCHANGED rooms
       ELSE /\ mutex' = c
            /\ rooms' = rooms @@ (roomName :> NewRoom)
            /\ Goto(c, "JoinLock")
            /\ UNCHANGED local
    /\ UNCHANGED <<clients, client, messages, out, now, budget, joinMark,
                   peerClosed>>

\* createRoom: Lock, lookup, insertion of the room, then the call of
\* joinRoom, whose Lock the session reaches with the mutex still held
CreateLock(c) ==
    LET roomName == local[c].arg IN
    /\ pc[c] = "CreateLock"
    /\ mutex = 0
    /\ IF roomName \in DOMAIN rooms
       THEN /\ Goto(c, "ReplyErr")
            /\ local' = [local EXCEPT ![c].text = <<"room already exists">>]
            /\ UNCHANGED <<mutex, rooms>>
       ELSE /\ mutex' = c
            /\ rooms' = rooms @@ (roomName :> NewRoom)
            /\ Goto(c, "JoinLock")
            /\ UNCHANGED local
    /\ UNCHANGED <<clients, client, messages, out, now, budget, joinMark, peerClosed>>

(***************************************************************************)
(* The chat path of handleConnection: broadcastToRoom without the mutex.   *)
(***************************************************************************)
\* a chat path that stores the message in the global history as well
ChatAppendGlobal(c) ==
    /\ pc[c] = "ChatAppend"
    /\ rooms' = appendToRoom(rooms, client[c].room, local[c].snap, local[c].msg)
    /\ messages' = Append(messages, local[c].msg)
    /\ Goto(c, "ChatFanout")
    /\ UNCHANGED <<mutex, clients, client, out, local, now, budget,
                   joinMark, peerClosed>>

\* broadcastToRoom: room.messages = append(room.messages, msg)
ChatAppend(c) ==
    /\ pc[c] = "ChatAppend"
    /\ rooms' = appendToRoom(rooms, client[c].room, local[c].snap, local[c].msg)
    /\ Goto(c, "ChatFanout")
    /\ UNCHANGED <<mutex, clients, client, messages, out, local, now, budget,
                   joinMark, peerClosed>>

\* the member set the range loop of session c started from
RangeStart(c) ==
    IF local[c].visited = {} THEN rooms[client[c].room].clients
    ELSE local[c].start

\* a range over every registered client instead of the room's members
ToVisitRegistry(c) == clients \ local[c].visited

\* the members the range loop of session c has yet to produce
ToVisit(c) == rooms[client[c].room].clients \ local[c].visited

\* broadcastToRoom: for conn := range room.clients produces its next
\* connection.  The member set may change under the loop: a member inserted
\* meanwhile is produced or not, one removed before its turn is not.
ChatPick(c) ==
    /\ pc[c] = "ChatFanout"
    /\ \E d \in ToVisit(c) :
          local' = [local EXCEPT ![c].start = RangeStart(c),
                                 ![c].visited = @ \cup {d},
                                 ![c].target = d]
    /\ Goto(c, "ChatWrite")
    /\ UNCHANGED <<mutex, clients, client, rooms, messages, out, now, budget,
                   joinMark, peerClosed>>

\* broadcastToRoom: conn.Write on the connection the range produced
ChatWrite(c) ==
    /\ pc[c] = "ChatWrite"
    /\ out' = Write(out, local[c].target,
                    formatMessage(local[c].msg) \o <<"\n">>)
    /\ local' = [local EXCEPT ![c].target = 0]
    /\ Goto(c, "ChatFanout")
    /\ UNCHANGED <<mutex, clients, client, rooms, messages, now, budget,
                   joinMark, peerClosed>>

\* broadcastToRoom: the range loop ends
ChatDone(c) ==
    /\ pc[c] = "ChatFanout"
    /\ (RangeStart(c) \cap rooms[client[c].room].clients) \subseteq local[c].visited
    /\ local' = [local EXCEPT ![c] = NoLocal]
    /\ Goto(c, "Active")
    /\ UNCHANGED <<mutex, clients, client, rooms, messages, out, now, budget,
                   joinMark, peerClosed>>

(***************************************************************************)
(* Server.broadcast and the disconnect path.                               *)
(***************************************************************************)
\* a global broadcast that ranges over every open connection
BroadcastAll(c) ==
    /\ pc[c] = "Broadcast"
    /\ mutex = 0
    /\ messages' = Append(messages, local[c].msg)
    /\ out' = fanOut(out, {d \in Conns : pc[d] \notin {"Closed", "Rejected"}},
                     local[c].msg)
    /\ Goto(c, local[c].ret)
    /\ local' = [local EXCEPT ![c] = NoLocal]
    /\ UNCHANGED <<mutex, clients, client, rooms, now, budget, joinMark,
                   peerClosed>>

\* Server.broadcast: the whole critical section
Broadcast(c) ==
    /\ pc[c] = "Broadcast"
    /\ mutex = 0
    /\ messages' = Append(messages, local[c].msg)
    /\ out' = fanOut(out, clients, local[c].msg)
    /\ Goto(c, local[c].ret)
    /\ local' = [local EXCEPT ![c] = NoLocal]
    /\ UNCHANGED <<mutex, clients, client, rooms, now, budget, joinMark, peerClosed>>

\* handleConnection: the read of a line fails and the message loop ends
ReadFail(c) ==
    /\ pc[c] = "Active"
    /\ budget > 0
    /\ budget' = budget - 1
    /\ Goto(c, "Leaving")
    /\ UNCHANGED <<mutex, clients, client, rooms, messages, out, local, now,
                   joinMark, peerClosed>>

\* a disconnect path that deletes the room its last member leaves
DisconnectPrune(c) ==
    LET r == client[c].room IN
    /\ pc[c] = "Leaving"
    /\ mutex = 0
    /\ clients' = clients \ {c}
    /\ rooms' = IF r # <<>> /\ r \in DOMAIN rooms
                THEN IF rooms[r].clients \subseteq {c}
                     THEN [q \in DOMAIN rooms \ {r} |-> rooms[q]]
                     ELSE [rooms EXCEPT ![r].clients = @ \ {c}]
                ELSE rooms
    /\ local' = [local EXCEPT ![c].msg =
                    Message(MessageTypeSystem, <<>>, <<>>,
                            client[c].name \o <<" has left our chat...">>, now),
                              ![c].ret = "Closed"]
    /\ Goto(c, "Broadcast")
    /\ UNCHANGED <<mutex, client, messages, out, now, budget, joinMark,
                   peerClosed>>

\* a disconnect path that leaves the client in the member set of its room
DisconnectKeepMember(c) ==
    /\ pc[c] = "Leaving"
    /\ mutex = 0
    /\ clients' = clients \ {c}
    /\ local' = [local EXCEPT ![c].msg =
                    Message(MessageTypeSystem, <<>>, <<>>,
                            client[c].name \o <<" has left our chat...">>, now),
                              ![c].ret = "Closed"]
    /\ Goto(c, "Broadcast")
    /\ UNCHANGED <<mutex, client, rooms, messages, out, now, budget, joinMark,
                   peerClosed>>

\* handleConnection, after the loop: the client leaves both registries in
\* one critical section, and the departure notice is built
Disconnect(c) ==
    LET r == client[c].room IN
    /\ pc[c] = "Leaving"
    /\ mutex = 0
    /\ clients' = clients \ {c}
    /\ rooms' = IF r # <<>> /\ r \in DOMAIN rooms
                THEN [rooms EXCEPT ![r].clients = @ \ {c}]
                ELSE rooms
    /\ local' = [local EXCEPT ![c].msg =
                    Message(MessageTypeSystem, <<>>, <<>>,
                            client[c].name \o <<" has left our chat...">>, now),
                              ![c].ret = "Closed"]
    /\ Goto(c, "Broadcast")
    /\ UNCHANGED <<mutex, client, messages, out, now, budget, joinMark,
                   peerClosed>>

(***************************************************************************)
(* Commands: registerCommands and handleCommand.                           *)
(***************************************************************************)
KwHelp == <<"h","e","l","p">>
KwList == <<"l","i","s","t">>
KwNick == <<"n","i","c","k">>
KwJoin == <<"j","o","i","n">>
KwCreate == <<"c","r","e","a","t","e">>
KwRooms == <<"r","o","o","m","s">>
KwMsg == <<"m","s","g">>
KwWho == <<"w","h","o">>

\* the keys of Server.commands
KwQuit == <<"q","u","i","t">>

\* a command table that has an entry for every command the help text lists
CommandsWithQuit ==
    {KwHelp, KwList, KwNick, KwJoin, KwCreate, KwRooms, KwMsg, KwWho, KwQuit}

Commands == {KwHelp, KwList, KwNick, KwJoin, KwCreate, KwRooms, KwMsg, KwWho}

HelpText == <<"Available commands: /help /list /nick /msg /join /rooms /create /quit /who", "\n">>

errorMessage(content, ts) ==
    Message(MessageTypeError, <<>>, <<>>, content, ts)

\* an error reply that goes to every registered client
ErrorNowAll(c, content) ==
    /\ out' = fanOut(out, clients, errorMessage(content, now))
    /\ UNCHANGED <<pc, mutex, clients, client, rooms, messages, local,
                   joinMark, peerClosed>>

\* handleCommand: the handler returned an error before touching the mutex,
\* or the command is unknown; the error goes to the caller
ErrorNow(c, content) ==
    /\ out' = sendMessage(out, c, errorMessage(content, now))
    /\ UNCHANGED <<pc, mutex, clients, client, rooms, messages, local,
                   joinMark, peerClosed>>

\* the session goes on to a handler's next step with its arguments
Proceed(c, label, arg, text) ==
    /\ Goto(c, label)
    /\ local' = [local EXCEPT ![c].arg = arg, ![c].text = text]
    /\ UNCHANGED <<mutex, clients, client, rooms, messages, out, joinMark, peerClosed>>

\* "who": room.clients and the names are read without the mutex
whoReply(c, order) ==
    <<"Users in room ">> \o client[c].room \o <<" ", "(">>
    \o Itoa(Len(order)) \o <<")", ":", "\n">>
    \o Join([i \in 1..Len(order) |-> client[order[i]].name], <<",", " ">>)
    \o <<"\n">>

\* "list": one entry per registered client, in the order of the map range
listReply(order) ==
    <<"Online users ", "(">> \o Itoa(Len(order)) \o <<")", ":", "\n">>
    \o Join([i \in 1..Len(order) |->
                client[order[i]].name \o <<" ", "(", "in ">>
                \o client[order[i]].room \o <<")">>], <<"\n">>)
    \o <<"\n">>

\* listRooms: one entry per room, in the order of the map range
roomsReply(order) ==
    <<"Available rooms:", "\n">>
    \o Join([i \in 1..Len(order) |->
                order[i] \o <<" ", "(">>
                \o Itoa(Cardinality(rooms[order[i]].clients))
                \o <<" users", ")">>], <<"\n">>)
    \o <<"\n">>

\* handleCommand(client, message) for a message that starts with "/"
handleCommand(c, message) ==
    LET parts == Fields(message)
        command == TrimSlashPrefix(parts[1])
        args == Tail(parts)
    IN
    IF command \notin Commands
    THEN ErrorNow(c, <<"Unknown command. Type /help for available commands.">>)
    ELSE IF command = KwHelp
    THEN /\ out' = Write(out, c, HelpText)
         /\ UNCHANGED <<pc, mutex, clients, client, rooms, messages, local,
                        joinMark, peerClosed>>
    ELSE IF command = KwList THEN Proceed(c, "ListLock", <<>>, <<>>)
    ELSE IF command = KwNick
    THEN IF Len(args) < 1 THEN ErrorNow(c, <<"usage: /nick <new_name>">>)
         ELSE IF validateName(args[1]) # Nil
         THEN ErrorNow(c, validateName(args[1]))
         ELSE Proceed(c, "NickRename", args[1], <<>>)
    ELSE IF command = KwJoin
    THEN IF Len(args) < 1 THEN ErrorNow(c, <<"usage: /join <room>">>)
         ELSE Proceed(c, "JoinLock", args[1], <<>>)
    ELSE IF command = KwCreate
    THEN IF Len(args) < 1 THEN ErrorNow(c, <<"usage: /create <room>">>)
         ELSE Proceed(c, "CreateLock", args[1], <<>>)
    ELSE IF command = KwRooms THEN Proceed(c, "RoomsLock", <<>>, <<>>)
    ELSE IF command = KwMsg
    THEN IF Len(args) < 2 THEN ErrorNow(c, <<"usage: /msg <user> <message>">>)
         ELSE Proceed(c, "MsgLock", args[1], Join(Tail(args), <<" ">>))
    ELSE \* who
         IF client[c].room = <<>>
         THEN ErrorNow(c, <<"you are not in any room">>)
         ELSE /\ \E order \in Orders(rooms[client[c].room].clients) :
                    out' = Write(out, c, whoReply(c, order))
              /\ UNCHANGED <<pc, mutex, clients, client, rooms, messages,
                             local, joinMark, peerClosed>>

\* the chat path: the message is built and broadcastToRoom reads room.messages
chatLine(c, message) ==
    IF client[c].room = <<>>
    THEN UNCHANGED <<pc, mutex, clients, client, rooms, messages, out, local,
                     joinMark, peerClosed>>
    ELSE /\ Goto(c, "ChatAppend")
         /\ local' = [local EXCEPT
                ![c].snap = rooms[client[c].room].messages,
                ![c].msg = Message(MessageTypeChat, client[c].name, <<>>,
                                   message, now)]
         /\ UNCHANGED <<mutex, clients, client, rooms, messages, out,
                        joinMark, peerClosed>>

\* a message loop that does not skip the line that is empty after the trim
ReadLineNoSkip(c, line) ==
    /\ pc[c] = "Active"
    /\ c \notin peerClosed
    /\ budget > 0
    /\ budget' = budget - 1
    /\ UNCHANGED now
    /\ LET message == TrimSpace(line) IN
       IF HasSlashPrefix(message) THEN handleCommand(c, message)
       ELSE chatLine(c, message)

\* handleConnection: one round of the message loop
ReadLine(c, line) ==
    /\ pc[c] = "Active"
    /\ c \notin peerClosed
    /\ budget > 0
    /\ budget' = budget - 1
    /\ UNCHANGED now
    /\ LET message == TrimSpace(line) IN
       IF message = <<>>
       THEN UNCHANGED <<pc, mutex, clients, client, rooms, messages, out,
                        local, joinMark, peerClosed>>
       ELSE IF HasSlashPrefix(message) THEN handleCommand(c, message)
       ELSE chatLine(c, message)

\* an error of a handler that goes to every registered client
ReplyErrAll(c) ==
    /\ pc[c] = "ReplyErr"
    /\ out' = fanOut(out, clients, errorMessage(local[c].text, now))
    /\ local' = [local EXCEPT ![c] = NoLocal]
    /\ Goto(c, "Active")
    /\ UNCHANGED <<mutex, clients, client, rooms, messages, now, budget,
                   joinMark, peerClosed>>

\* handleCommand: the error a handler returned after its critical section
ReplyErr(c) ==
    /\ pc[c] = "ReplyErr"
    /\ out' = sendMessage(out, c, errorMessage(local[c].text, now))
    /\ local' = [local EXCEPT ![c] = NoLocal]
    /\ Goto(c, "Active")
    /\ UNCHANGED <<mutex, clients, client, rooms, messages, now, budget,
                   joinMark, peerClosed>>

\* a "nick" that builds the notice and leaves c.name as it was
NickRenameKeep(c) ==
    /\ pc[c] = "NickRename"
    /\ local' = [local EXCEPT ![c].msg =
                    Message(MessageTypeSystem, <<>>, <<>>,
                            client[c].name \o <<" changed name to ">>
                            \o local[c].arg, now),
                              ![c].ret = "Active"]
    /\ Goto(c, "Broadcast")
    /\ UNCHANGED <<mutex, clients, client, rooms, messages, out, now, budget,
                   joinMark, peerClosed>>

\* "nick": c.name = newName, without the mutex; the notice is built
NickRename(c) ==
    /\ pc[c] = "NickRename"
    /\ client' = [client EXCEPT ![c].name = local[c].arg]
    /\ local' = [local EXCEPT ![c].msg =
                    Message(MessageTypeSystem, <<>>, <<>>,
                            client[c].name \o <<" changed name to ">>
                            \o local[c].arg, now),
                              ![c].ret = "Active"]
    /\ Goto(c, "Broadcast")
    /\ UNCHANGED <<mutex, clients, rooms, messages, out, now, budget,
                   joinMark, peerClosed>>

\* "list": the critical section that collects the users
ListLock(c) ==
    /\ pc[c] = "ListLock"
    /\ mutex = 0
    /\ \E order \in Orders(clients) :
          local' = [local EXCEPT ![c].text = listReply(order)]
    /\ Goto(c, "ListReply")
    /\ UNCHANGED <<mutex, clients, client, rooms, messages, out, now, budget,
                   joinMark, peerClosed>>

\* "list": the reply is written after the Unlock
ListReply(c) ==
    /\ pc[c] = "ListReply"
    /\ out' = Write(out, c, local[c].text)
    /\ local' = [local EXCEPT ![c] = NoLocal]
    /\ Goto(c, "Active")
    /\ UNCHANGED <<mutex, clients, client, rooms, messages, now, budget,
                   joinMark, peerClosed>>

\* listRooms: the whole critical section
listRooms(c) ==
    /\ pc[c] = "RoomsLock"
    /\ mutex = 0
    /\ \E order \in Orders(DOMAIN rooms) :
          out' = Write(out, c, roomsReply(order))
    /\ local' = [local EXCEPT ![c] = NoLocal]
    /\ Goto(c, "Active")
    /\ UNCHANGED <<mutex, clients, client, rooms, messages, now, budget,
                   joinMark, peerClosed>>

\* a lookup that compares the names as isNameTaken does
NamedFold(toName) == {t \in clients : EqualFold(client[t].name, toName)}

\* the registered clients whose name is exactly toName
Named(toName) == {t \in clients : client[t].name = toName}

privateMessage(from, to, content, ts) ==
    Message(MessageTypePrivate, from, to, content, ts)

\* the two writes of sendPrivateMessage
deliverPrivate(o, to, from, msg) ==
    sendMessage(sendMessage(o, to, msg), from, msg)

\* a sendPrivateMessage that stores the message in the history of the
\* caller's room
sendPrivateMessageLogged(c) ==
    /\ pc[c] = "MsgLock"
    /\ mutex = 0
    /\ IF Named(local[c].arg) = {}
       THEN /\ local' = [local EXCEPT ![c].text =
                            <<"user ">> \o local[c].arg \o <<" not found">>]
            /\ Goto(c, "ReplyErr")
            /\ UNCHANGED <<out, rooms>>
       ELSE /\ \E to \in Named(local[c].arg) :
                  /\ out' = deliverPrivate(out, to, c,
                               privateMessage(client[c].name, client[to].name,
                                              local[c].text, now))
                  /\ rooms' = [rooms EXCEPT ![client[c].room].messages =
                                  Append(@, privateMessage(client[c].name,
                                            client[to].name, local[c].text, now))]
            /\ local' = [local EXCEPT ![c] = NoLocal]
            /\ Goto(c, "Active")
    /\ UNCHANGED <<mutex, clients, client, messages, now, budget,
                   joinMark, peerClosed>>

\* sendPrivateMessage: the whole critical section; the range over s.clients
\* stops at the first client it meets with the name
sendPrivateMessage(c) ==
    /\ pc[c] = "MsgLock"
    /\ mutex = 0
    /\ IF Named(local[c].arg) = {}
       THEN /\ local' = [local EXCEPT ![c].text =
                            <<"user ">> \o local[c].arg \o <<" not found">>]
            /\ Goto(c, "ReplyErr")
            /\ UNCHANGED out
       ELSE /\ \E to \in Named(local[c].arg) :
                  out' = deliverPrivate(out, to, c,
                            privateMessage(client[c].name, client[to].name,
                                           local[c].text, now))
            /\ local' = [local EXCEPT ![c] = NoLocal]
            /\ Goto(c, "Active")
    /\ UNCHANGED <<mutex, clients, client, rooms, messages, now, budget,
                   joinMark, peerClosed>>

(***************************************************************************)
(* What the clients send.                                                  *)
(***************************************************************************)
Alice == <<"A","l">>
AliceLower == <<"a","l">>
Bob == <<"B","o">>
Carol == <<"C","a">>
NameShort == <<"B">>
NamePadded == <<" ","B","o"," ">>
Test == <<"t","e","s","t">>
Hello == <<"h","i">>

LineNick == <<"/">> \o KwNick \o <<" ">> \o AliceLower
LineNickShort == <<"/">> \o KwNick \o <<" ", "B">>
LineNickBob == <<"/">> \o KwNick \o <<" ">> \o Bob
LineJoinTest == <<"/">> \o KwJoin \o <<" ">> \o Test
LineJoinGeneral == <<"/">> \o KwJoin \o <<" ">> \o General
LineCreateTest == <<"/">> \o KwCreate \o <<" ">> \o Test
LineCreateGeneral == <<"/">> \o KwCreate \o <<" ">> \o General
LineRooms == <<"/">> \o KwRooms
LineList == <<"/">> \o KwList
LineWho == <<"/">> \o KwWho
LineHelp == <<"/">> \o KwHelp
LineQuit == <<"/">> \o KwQuit
LineSlash == <<"/">>
LineNickBare == <<"/">> \o KwNick
LineJoinBare == <<"/">> \o KwJoin \o <<" ">>
LineCreateBare == <<" ", "/">> \o KwCreate
LineMsgBare == <<"/">> \o KwMsg
LineMsgBob == <<"/">> \o KwMsg \o <<" ">> \o Bob \o <<" ", " ">> \o Hello
LineMsgNobody == <<"/">> \o KwMsg \o <<" ">> \o AliceLower \o <<" ">> \o Hello
LineMsgShort == <<"/">> \o KwMsg \o <<" ">> \o Bob
LineEmpty == <<" ">>
NameShortLine == <<" ", "B", "\r", "\n">>
Name20 == [i \in 1..MaxNameLen |-> "x"]
Name20Padded == <<" ">> \o Name20 \o <<"\n">>
Name20Upper == [i \in 1..MaxNameLen |-> "X"]
Name21 == [i \in 1..(MaxNameLen + 1) |-> "x"]
LineNewline == <<"\n">>
LineCrLf == <<" ", "\t", "\r", "\n">>

(***************************************************************************)
(* Specifications.                                                         *)
(***************************************************************************)
\* Spec: two names, chat, /join and /create, disconnects, the clock
SpecNames == {Alice, AliceLower, Bob}
SpecLines == {Hello, LineJoinGeneral, LineCreateTest}

Next ==
    \/ Accept(MaxConns)
    \/ Tick
    \/ \E c \in Conns : WriteLogo(c)
    \/ \E c \in Conns : NameReadFail(c)
    \/ \E c \in Conns : Register(c)
    \/ \E c \in Conns : JoinLock(c)
    \/ \E c \in Conns : JoinReplay(c)
    \/ \E c \in Conns : JoinRead(c)
    \/ \E c \in Conns : JoinNotify(c)
    \/ \E c \in Conns : CreateLock(c)
    \/ \E c \in Conns : ChatAppend(c)
    \/ \E c \in Conns : ChatPick(c)
    \/ \E c \in Conns : ChatWrite(c)
    \/ \E c \in Conns : ChatDone(c)
    \/ \E c \in Conns : Broadcast(c)
    \/ \E c \in Conns : ReadFail(c)
    \/ \E c \in Conns : Disconnect(c)
    \/ \E c \in Conns : \E line \in SpecNames : ReadName(c, line)
    \/ \E c \in Conns : \E line \in SpecLines : ReadLine(c, line)

Spec == Init /\ [][Next]_vars

(***************************************************************************)
(* SpecCap: the server after Preload clients have connected, named         *)
(* themselves and joined "general" one after the other; then CapConns more *)
(* connections arrive.                                                     *)
(***************************************************************************)
PreName(k) == <<"U", Digits[k + 1]>>

\* the state after the first k of those sessions, each run to its Active loop
RECURSIVE Pre(_)
Pre(k) ==
    IF k = 0
    THEN [client |-> <<>>, rooms |-> (General :> NewRoom), out |-> <<>>,
          mark |-> <<>>]
    ELSE LET p == Pre(k - 1)
             inserted == moveClient(p.rooms, k, <<>>, General)
             replayed == sendAll(p.out @@ (k :> <<Logo>>), k,
                                 inserted[General].messages)
             notice == joinNotice(PreName(k), 0)
         IN [client |-> p.client @@ (k :> [name |-> PreName(k),
                                           room |-> General]),
             rooms |-> appendToRoom(inserted, General,
                                    inserted[General].messages, notice),
             out |-> fanOut(replayed, inserted[General].clients, notice),
             mark |-> p.mark @@ (k :> [hist |-> p.rooms[General].messages,
                                       outLen |-> 1, room |-> General])]

InitCap ==
    /\ peerClosed = {}
    /\ pc = [c \in 1..Preload |-> "Active"]
    /\ mutex = 0
    /\ clients = 1..Preload
    /\ client = Pre(Preload).client
    /\ rooms = Pre(Preload).rooms
    /\ messages = <<>>
    /\ out = Pre(Preload).out
    /\ local = [c \in 1..Preload |-> NoLocal]
    /\ now = 0
    /\ budget = MaxReads
    /\ joinMark = Pre(Preload).mark

NextCap ==
    \/ Accept(Preload + CapConns)
    \/ \E c \in Conns : WriteLogo(c)
    \/ \E c \in Conns : NameReadFail(c)
    \/ \E c \in Conns : Register(c)
    \/ \E c \in Conns : JoinLock(c)
    \/ \E c \in Conns : JoinReplay(c)
    \/ \E c \in Conns : JoinRead(c)
    \/ \E c \in Conns : JoinNotify(c)
    \/ \E c \in Conns : Broadcast(c)
    \/ \E c \in Conns : ReadFail(c)
    \/ \E c \in Conns : Disconnect(c)
    \/ \E c \in Conns : \E line \in SpecNames : ReadName(c, line)

SpecCap == InitCap /\ [][NextCap]_vars

(***************************************************************************)
(* SpecMsg: three names and /msg, with one read more than Spec.            *)
(***************************************************************************)
MsgNames == {Alice, Bob, Carol}
MsgLines == {LineMsgBob, LineMsgNobody}

InitMsg ==
    /\ pc = <<>>
    /\ mutex = 0
    /\ clients = {}
    /\ client = <<>>
    /\ rooms = (General :> NewRoom)
    /\ messages = <<>>
    /\ out = <<>>
    /\ local = <<>>
    /\ now = 0
    /\ budget = MaxReads + 1
    /\ joinMark = <<>>
    /\ peerClosed = {}

NextMsg ==
    \/ Accept(MaxConns)
    \/ \E c \in Conns : WriteLogo(c)
    \/ \E c \in Conns : Register(c)
    \/ \E c \in Conns : JoinLock(c)
    \/ \E c \in Conns : JoinReplay(c)
    \/ \E c \in Conns : JoinRead(c)
    \/ \E c \in Conns : JoinNotify(c)
    \/ \E c \in Conns : ReplyErr(c)
    \/ \E c \in Conns : sendPrivateMessage(c)
    \/ \E c \in Conns : \E line \in MsgNames : ReadName(c, line)
    \/ \E c \in Conns : \E line \in MsgLines : ReadLine(c, line)

SpecMsg == InitMsg /\ [][NextMsg]_vars

(***************************************************************************)
(* SpecD: one client named Al looks for the room test, lists the rooms,    *)
(* and then sends the lines of Scenario D.  The lines are read in this     *)
(* order; the connection that reads the name reads the rest.               *)
(***************************************************************************)
ScriptD == <<Alice, LineJoinTest, LineRooms,
             LineCreateTest, LineJoinTest, LineRooms>>

InitD ==
    /\ pc = <<>>
    /\ mutex = 0
    /\ clients = {}
    /\ client = <<>>
    /\ rooms = (General :> NewRoom)
    /\ messages = <<>>
    /\ out = <<>>
    /\ local = <<>>
    /\ now = 0
    /\ budget = Len(ScriptD)
    /\ joinMark = <<>>
    /\ peerClosed = {}

NextD ==
    \/ Accept(MaxConns)
    \/ Tick
    \/ \E c \in Conns : WriteLogo(c)
    \/ \E c \in Conns : Register(c)
    \/ \E c \in Conns : JoinLock(c)
    \/ \E c \in Conns : JoinReplay(c)
    \/ \E c \in Conns : JoinRead(c)
    \/ \E c \in Conns : JoinNotify(c)
    \/ \E c \in Conns : CreateLock(c)
    \/ \E c \in Conns : ReplyErr(c)
    \/ \E c \in Conns : listRooms(c)
    \/ \E c \in Conns : budget = Len(ScriptD) /\ ReadName(c, ScriptD[1])
    \/ \E c \in Conns : /\ budget \in 1..(Len(ScriptD) - 1)
                        /\ ReadLine(c, ScriptD[Len(ScriptD) - budget + 1])

SpecD == InitD /\ [][NextD]_vars /\ WF_vars(NextD)

(***************************************************************************)
(* SpecNick: two names and /nick with a free name, a taken one and a       *)
(* short one.                                                              *)
(***************************************************************************)
NickNames == {Alice, Carol}
NickLines == {LineNickBob, LineNick, LineNickShort}

NextNick ==
    \/ Accept(MaxConns)
    \/ Tick
    \/ \E c \in Conns : WriteLogo(c)
    \/ \E c \in Conns : Register(c)
    \/ \E c \in Conns : JoinLock(c)
    \/ \E c \in Conns : JoinReplay(c)
    \/ \E c \in Conns : JoinRead(c)
    \/ \E c \in Conns : JoinNotify(c)
    \/ \E c \in Conns : NickRename(c)
    \/ \E c \in Conns : Broadcast(c)
    \/ \E c \in Conns : \E line \in NickNames : ReadName(c, line)
    \/ \E c \in Conns : \E line \in NickLines : ReadLine(c, line)

SpecNick == Init /\ [][NextNick]_vars

(***************************************************************************)
(* SpecLeave: two names, /create and failing reads, with one read more     *)
(* than Spec.  A session that can take a step of its own takes one in the  *)
(* end; no client has to send anything.                                    *)
(***************************************************************************)
LeaveNames == {Alice, Bob}
LeaveLines == {LineCreateTest}

NextLeave ==
    \/ Accept(MaxConns)
    \/ \E c \in Conns : WriteLogo(c)
    \/ \E c \in Conns : Register(c)
    \/ \E c \in Conns : JoinLock(c)
    \/ \E c \in Conns : JoinReplay(c)
    \/ \E c \in Conns : JoinRead(c)
    \/ \E c \in Conns : JoinNotify(c)
    \/ \E c \in Conns : CreateLock(c)
    \/ \E c \in Conns : ReadFail(c)
    \/ \E c \in Conns : Disconnect(c)
    \/ \E c \in Conns : Broadcast(c)
    \/ \E c \in Conns : \E line \in LeaveNames : ReadName(c, line)
    \/ \E c \in Conns : \E line \in LeaveLines : ReadLine(c, line)

\* the steps a session takes without reading from its client
SessionStep(c) ==
    \/ WriteLogo(c)
    \/ Register(c)
    \/ JoinLock(c)
    \/ JoinReplay(c)
    \/ JoinRead(c)
    \/ JoinNotify(c)
    \/ CreateLock(c)
    \/ Disconnect(c)
    \/ Broadcast(c)

SpecLeave ==
    InitMsg /\ [][NextLeave]_vars /\ WF_vars(\E c \in Conns : SessionStep(c))

(***************************************************************************)
(* SpecSession: names, chat and failing reads; every join is the default   *)
(* join of a new client.                                                   *)
(***************************************************************************)
SessionNames == {Alice, AliceLower, NameShort, NamePadded, LineEmpty}
SessionLines == {Hello}

NextSession ==
    \/ Accept(MaxConns)
    \/ \E c \in Conns : WriteLogo(c)
    \/ \E c \in Conns : NameReadFail(c)
    \/ \E c \in Conns : Register(c)
    \/ \E c \in Conns : JoinLock(c)
    \/ \E c \in Conns : JoinReplay(c)
    \/ \E c \in Conns : JoinRead(c)
    \/ \E c \in Conns : JoinNotify(c)
    \/ \E c \in Conns : ChatAppend(c)
    \/ \E c \in Conns : ChatPick(c)
    \/ \E c \in Conns : ChatWrite(c)
    \/ \E c \in Conns : ChatDone(c)
    \/ \E c \in Conns : ReadFail(c)
    \/ \E c \in Conns : Disconnect(c)
    \/ \E c \in Conns : Broadcast(c)
    \/ \E c \in Conns : \E line \in SessionNames : ReadName(c, line)
    \/ \E c \in Conns : \E line \in SessionLines : ReadLine(c, line)

SpecSession == Init /\ [][NextSession]_vars

(***************************************************************************)
(* SpecCmd: two names and the command lines that are answered with an      *)
(* error.                                                                  *)
(***************************************************************************)
CmdNames == {Alice, Bob}
CmdLines == {LineQuit, LineSlash, LineNickBare, LineJoinBare, LineCreateBare,
             LineMsgBare, LineMsgShort, LineJoinTest, LineCreateGeneral}

NextCmd ==
    \/ Accept(MaxConns)
    \/ Tick
    \/ \E c \in Conns : WriteLogo(c)
    \/ \E c \in Conns : Register(c)
    \/ \E c \in Conns : JoinLock(c)
    \/ \E c \in Conns : JoinReplay(c)
    \/ \E c \in Conns : JoinRead(c)
    \/ \E c \in Conns : JoinNotify(c)
    \/ \E c \in Conns : CreateLock(c)
    \/ \E c \in Conns : ReplyErr(c)
    \/ \E c \in Conns : \E line \in CmdNames : ReadName(c, line)
    \/ \E c \in Conns : \E line \in CmdLines : ReadLine(c, line)

SpecCmd == Init /\ [][NextCmd]_vars

(***************************************************************************)
(* SpecFan: two names, chat and /nick, and clients that close their end    *)
(* while the server still holds them as recipients.                        *)
(***************************************************************************)
FanNames == {Alice, Carol}
FanLines == {Hello, LineNickBob}

NextFan ==
    \/ Accept(MaxConns)
    \/ \E c \in Conns : PeerClose(c)
    \/ \E c \in Conns : WriteLogo(c)
    \/ \E c \in Conns : Register(c)
    \/ \E c \in Conns : JoinLock(c)
    \/ \E c \in Conns : JoinReplay(c)
    \/ \E c \in Conns : JoinRead(c)
    \/ \E c \in Conns : JoinNotify(c)
    \/ \E c \in Conns : ChatAppend(c)
    \/ \E c \in Conns : ChatPick(c)
    \/ \E c \in Conns : ChatWrite(c)
    \/ \E c \in Conns : ChatDone(c)
    \/ \E c \in Conns : NickRename(c)
    \/ \E c \in Conns : ReadFail(c)
    \/ \E c \in Conns : Disconnect(c)
    \/ \E c \in Conns : Broadcast(c)
    \/ \E c \in Conns : \E line \in FanNames : ReadName(c, line)
    \/ \E c \in Conns : \E line \in FanLines : ReadLine(c, line)

SpecFan == Init /\ [][NextFan]_vars

(***************************************************************************)
(* SpecQuit: two names, the line /quit and failing reads.  A session that  *)
(* can take a step of its own takes one in the end; no client has to send  *)
(* anything or to close its end.                                           *)
(***************************************************************************)
QuitNames == {Alice, Bob}
QuitLines == {LineQuit}

NextQuit ==
    \/ Accept(MaxConns)
    \/ \E c \in Conns : WriteLogo(c)
    \/ \E c \in Conns : Register(c)
    \/ \E c \in Conns : JoinLock(c)
    \/ \E c \in Conns : JoinReplay(c)
    \/ \E c \in Conns : JoinRead(c)
    \/ \E c \in Conns : JoinNotify(c)
    \/ \E c \in Conns : ReadFail(c)
    \/ \E c \in Conns : Disconnect(c)
    \/ \E c \in Conns : Broadcast(c)
    \/ \E c \in Conns : \E line \in QuitNames : ReadName(c, line)
    \/ \E c \in Conns : \E line \in QuitLines : ReadLine(c, line)

SpecQuit ==
    Init /\ [][NextQuit]_vars /\ WF_vars(\E c \in Conns : SessionStep(c))

(***************************************************************************)
(* SpecEmpty: two names, a chat line and lines that are empty after the    *)
(* trim.                                                                   *)
(***************************************************************************)
EmptyNames == {Alice, Bob}
EmptyLines == {Hello, LineEmpty, LineNewline, LineCrLf}

NextEmpty ==
    \/ Accept(MaxConns)
    \/ \E c \in Conns : WriteLogo(c)
    \/ \E c \in Conns : Register(c)
    \/ \E c \in Conns : JoinLock(c)
    \/ \E c \in Conns : JoinReplay(c)
    \/ \E c \in Conns : JoinRead(c)
    \/ \E c \in Conns : JoinNotify(c)
    \/ \E c \in Conns : ChatAppend(c)
    \/ \E c \in Conns : ChatPick(c)
    \/ \E c \in Conns : ChatWrite(c)
    \/ \E c \in Conns : ChatDone(c)
    \/ \E c \in Conns : \E line \in EmptyNames : ReadName(c, line)
    \/ \E c \in Conns : \E line \in EmptyLines : ReadLine(c, line)

SpecEmpty == Init /\ [][NextEmpty]_vars

(***************************************************************************)
(* SpecValidate: connections that send names of every kind: empty, blank,  *)
(* short, of the greatest length, longer, padded, and equal to a           *)
(* registered name but for the case.                                       *)
(***************************************************************************)
ValidateNames == {<<>>, LineCrLf, NameShortLine, Alice, AliceLower,
                  Name20Padded, Name20Upper, Name21}

NextValidate ==
    \/ Accept(ValidateConns)
    \/ \E c \in Conns : WriteLogo(c)
    \/ \E c \in Conns : Register(c)
    \/ \E c \in Conns : JoinLock(c)
    \/ \E c \in Conns : JoinReplay(c)
    \/ \E c \in Conns : JoinRead(c)
    \/ \E c \in Conns : JoinNotify(c)
    \/ \E c \in Conns : \E line \in ValidateNames : ReadName(c, line)

SpecValidate == Init /\ [][NextValidate]_vars

(***************************************************************************)
(* SpecClose: two clients, a chat line, /msg and failing reads, with one   *)
(* read more than Spec: a member can leave while the other's line is       *)
(* being fanned out.                                                       *)
(***************************************************************************)
CloseNames == {Alice, Bob}
CloseLines == {Hello, LineMsgBob}

NextClose ==
    \/ Accept(CloseConns)
    \/ \E c \in Conns : WriteLogo(c)
    \/ \E c \in Conns : Register(c)
    \/ \E c \in Conns : JoinLock(c)
    \/ \E c \in Conns : JoinReplay(c)
    \/ \E c \in Conns : JoinRead(c)
    \/ \E c \in Conns : JoinNotify(c)
    \/ \E c \in Conns : ChatAppend(c)
    \/ \E c \in Conns : ChatPick(c)
    \/ \E c \in Conns : ChatWrite(c)
    \/ \E c \in Conns : ChatDone(c)
    \/ \E c \in Conns : sendPrivateMessage(c)
    \/ \E c \in Conns : ReplyErr(c)
    \/ \E c \in Conns : ReadFail(c)
    \/ \E c \in Conns : Disconnect(c)
    \/ \E c \in Conns : Broadcast(c)
    \/ \E c \in Conns : \E line \in CloseNames : ReadName(c, line)
    \/ \E c \in Conns : \E line \in CloseLines : ReadLine(c, line)

SpecClose == InitMsg /\ [][NextClose]_vars

(***************************************************************************)
(* SpecNaming: three connections, of which one may stay at the name        *)
(* prompt while the others chat, send /msg and leave; one read more than   *)
(* Spec.                                                                   *)
(***************************************************************************)
NamingNames == {Alice, Bob}
NamingLines == {Hello, LineMsgBob}

NextNaming ==
    \/ Accept(MaxConns)
    \/ \E c \in Conns : WriteLogo(c)
    \/ \E c \in Conns : Register(c)
    \/ \E c \in Conns : JoinLock(c)
    \/ \E c \in Conns : JoinReplay(c)
    \/ \E c \in Conns : JoinRead(c)
    \/ \E c \in Conns : JoinNotify(c)
    \/ \E c \in Conns : ChatAppend(c)
    \/ \E c \in Conns : ChatPick(c)
    \/ \E c \in Conns : ChatWrite(c)
    \/ \E c \in Conns : ChatDone(c)
    \/ \E c \in Conns : sendPrivateMessage(c)
    \/ \E c \in Conns : ReplyErr(c)
    \/ \E c \in Conns : ReadFail(c)
    \/ \E c \in Conns : Disconnect(c)
    \/ \E c \in Conns : Broadcast(c)
    \/ \E c \in Conns : \E line \in NamingNames : ReadName(c, line)
    \/ \E c \in Conns : \E line \in NamingLines : ReadLine(c, line)

SpecNaming == InitMsg /\ [][NextNaming]_vars

(***************************************************************************)
(* Claims.                                                                 *)
(***************************************************************************)
\* the text one sendMessage writes
Wire(msg) == formatMessage(msg) \o <<"\n">>

\* whether text was written to connection c
Received(c, text) == \E i \in 1..Len(out[c]) : out[c][i] = text

\* C1: the Client Registry never holds two distinct entries whose names are
\* equal case-insensitively.
C1_NameUniqueness ==
    \A c \in clients : \A d \in clients :
        c # d => ~EqualFold(client[c].name, client[d].name)

\* C2: the Client Registry never holds more than maxClients entries.
C2_Capacity == Cardinality(clients) <= maxClients

\* C3: every connection is in at most one room's member set.
C3_MembershipExclusive ==
    \A c \in Conns : Cardinality(RoomsOf(c)) <= 1

\* C3 witness: a /create has added a second room while another client, put
\* into "general" by its default join, is a member of exactly that one room.
C3_Witness ==
    \E c \in Conns : \E d \in Conns :
        /\ pc[c] = "Active" /\ RoomsOf(c) = {General}
        /\ pc[d] = "JoinLock" /\ local[d].arg = Test
        /\ Test \in DOMAIN rooms /\ RoomsOf(d) = {General}

\* C7: whenever the mutex is free, every registered client is a member of
\* exactly one room and has a non-empty current-room field.
C7_NoTornRegistration ==
    mutex = 0 =>
        \A c \in clients :
            /\ Cardinality(RoomsOf(c)) = 1
            /\ client[c].room # <<>>

\* C4: once the replay of a join is over, the N messages the target history
\* held when the join inserted the client are the next N writes on its
\* connection after the join, in history order: nothing sent to the room
\* after the join comes before them.
C4_ReplayBeforeLive ==
    \A c \in Conns :
        (joinMark[c].room # <<>> /\ pc[c] # "JoinReplay") =>
            LET m == joinMark[c] IN
            /\ Len(out[c]) >= m.outLen + Len(m.hist)
            /\ \A i \in 1..Len(m.hist) :
                  out[c][m.outLen + i] = Wire(m.hist[i])

\* the steps of the chat path of session c
ChatAppended(c) == pc[c] = "ChatAppend" /\ pc'[c] = "ChatFanout"
ChatPicked(c) == pc[c] = "ChatFanout" /\ pc'[c] = "ChatWrite"
ChatWrote(c) == pc[c] = "ChatWrite" /\ pc'[c] = "ChatFanout"
ChatEnded(c) == pc[c] = "ChatFanout" /\ pc'[c] = "Active"

\* C8: a chat line is appended to the history of the sender's room and to no
\* other history; each round of its fan-out produces one member of that
\* room and writes the line to it and to nobody else; when the fan-out ends,
\* the sender and every member that was in the room throughout have the
\* line on their connection.
C8_ChatScope ==
    [][\A c \in Conns :
        LET r == client[c].room
            line == Wire(local[c].msg) IN
        /\ ChatAppended(c) =>
              /\ rooms'[r].messages # <<>>
              /\ rooms'[r].messages[Len(rooms'[r].messages)] = local[c].msg
              /\ local[c].msg.Type = MessageTypeChat
              /\ local[c].msg.From = client[c].name
              /\ \A q \in DOMAIN rooms \ {r} : rooms'[q] = rooms[q]
              /\ UNCHANGED <<messages, out>>
        /\ ChatPicked(c) =>
              /\ local'[c].target \in rooms[r].clients
              /\ UNCHANGED <<messages, rooms, out>>
        /\ ChatWrote(c) =>
              /\ out'[local[c].target] = Append(out[local[c].target], line)
              /\ \A e \in Conns \ {local[c].target} : out'[e] = out[e]
              /\ UNCHANGED <<messages, rooms>>
        /\ ChatEnded(c) =>
              /\ Received(c, line)
              /\ \A d \in local[c].start \cap rooms[r].clients :
                    Received(d, line)
              /\ UNCHANGED <<messages, rooms, out>>
      ]_vars

\* C8 witness: a fan-out has ended; the sender has its own line, and a
\* registered client that is in no room has not received it.
C8_Witness ==
    \E c \in Conns : \E d \in clients \ {c} :
        \E i \in 1..Len(rooms[General].messages) :
            LET msg == rooms[General].messages[i] IN
            /\ msg.Type = MessageTypeChat
            /\ msg.From = client[c].name
            /\ pc[c] = "Active"
            /\ Received(c, Wire(msg))
            /\ RoomsOf(d) = {}
            /\ ~Received(d, Wire(msg))

\* C5: a session whose createRoom has registered a new room under the name
\* it was given becomes a member of that room, of no other room, and has
\* that name as its room.
C5_CreateJoins ==
    \A c \in 1..MaxConns :
        (c \in Conns /\ pc[c] = "JoinLock" /\ mutex = c
         /\ local[c].arg = Test /\ rooms[Test].clients = {})
        ~> (c \in clients /\ client[c].room = Test /\ RoomsOf(c) = {Test})

\* whether part occurs in text
Contains(text, part) ==
    \E k \in 1..(Len(text) - Len(part) + 1) :
        SubSeq(text, k, k + Len(part) - 1) = part

\* the line of the /rooms reply for room test with one member
TestListed == Test \o <<" ", "(">> \o Itoa(1) \o <<" users", ")">>

\* C6: Scenario D: the client that sends /create test, then /join test, then
\* /rooms comes to have a /rooms reply that lists test (1 users).
C6_ScenarioD ==
    <>(\E c \in Conns : \E i \in 1..Len(out[c]) :
           Contains(out[c][i], TestListed))

\* the steps of "msg" by session c
MsgSent(c) == pc[c] = "MsgLock" /\ pc'[c] = "Active"
MsgFailed(c) == pc[c] = "MsgLock" /\ pc'[c] = "ReplyErr"
ErrorReplied(c) == pc[c] = "ReplyErr" /\ pc'[c] = "Active"

\* C9: /msg target text writes one private message, from the caller and with
\* the text, to one registered client whose name is exactly target and one
\* to the caller, and nothing to anyone else; it does so whenever such a
\* client is registered.  Otherwise the handler writes nothing, and the
\* error that follows goes to the caller alone.  No history changes.
C9_PrivateScope ==
    [][\A c \in Conns :
        /\ MsgSent(c) =>
              \E to \in clients : \E ts \in 0..MaxTime :
                 LET line == Wire(privateMessage(client[c].name,
                                       local[c].arg, local[c].text, ts)) IN
                 /\ client[to].name = local[c].arg
                 /\ out'[c] = IF to = c THEN out[c] \o <<line, line>>
                              ELSE Append(out[c], line)
                 /\ out'[to] = IF to = c THEN out[c] \o <<line, line>>
                               ELSE Append(out[to], line)
                 /\ \A e \in Conns \ {c, to} : out'[e] = out[e]
        /\ MsgFailed(c) =>
              /\ \A t \in clients : client[t].name # local[c].arg
              /\ UNCHANGED out
        /\ (pc[c] = "MsgLock" /\ pc'[c] # "MsgLock"
            /\ \E t \in clients : client[t].name = local[c].arg) => MsgSent(c)
        /\ (ErrorReplied(c) /\ local[c].arg # <<>>
            /\ local[c].text = <<"user ">> \o local[c].arg \o <<" not found">>) =>
              /\ \E ts \in 0..MaxTime :
                    out'[c] = Append(out[c], Wire(errorMessage(local[c].text, ts)))
              /\ \A e \in Conns \ {c} : out'[e] = out[e]
        /\ (MsgSent(c) \/ MsgFailed(c) \/ ErrorReplied(c)) =>
              UNCHANGED <<messages, rooms, clients, client>>
      ]_vars

\* C9 witness: of three registered clients, the caller and the target have
\* the private message on their connection and the third has not.
C9_Witness ==
    \E c \in clients : \E to \in clients \ {c} : \E e \in clients \ {c, to} :
        \E ts \in 0..MaxTime :
            LET line == Wire(privateMessage(client[c].name, client[to].name,
                                            Hello, ts)) IN
            /\ client[to].name = Bob
            /\ Received(c, line)
            /\ Received(to, line)
            /\ ~Received(e, line)

\* C9 witness of the failure: a caller has the "not found" error for a name
\* that differs from a registered name by case only.
C9_WitnessNotFound ==
    \E c \in clients : \E ts \in 0..MaxTime :
        /\ \E t \in clients : client[t].name = Alice
        /\ Received(c, Wire(errorMessage(
               <<"user ">> \o AliceLower \o <<" not found">>, ts)))

\* the steps of joinRoom by session c
JoinInserted(c) == pc[c] = "JoinLock" /\ pc'[c] = "JoinReplay"
JoinReplayed(c) == pc[c] = "JoinReplay" /\ pc'[c] = "JoinRead"
JoinNotified(c) == pc[c] = "JoinNotify" /\ pc'[c] = "Active"

\* C10: a join into an existing room leaves the caller in the target room's
\* member set and in no other, with its room field set to the target, and
\* moves nobody else; then it replays the target history to the caller
\* alone; then it writes the join notice to the members of the target room,
\* the joiner included, and to nobody else, and changes no other history.
C10_JoinScope ==
    [][\A c \in Conns :
        /\ JoinInserted(c) =>
              /\ local[c].arg \in DOMAIN rooms
              /\ client'[c].room = local[c].arg
              /\ \A q \in DOMAIN rooms :
                    rooms'[q].clients =
                        IF q = local[c].arg THEN rooms[q].clients \cup {c}
                        ELSE rooms[q].clients \ {c}
              /\ \A q \in DOMAIN rooms : rooms'[q].messages = rooms[q].messages
              /\ UNCHANGED <<out, messages>>
        /\ JoinReplayed(c) =>
              /\ out'[c] = out[c] \o [i \in 1..Len(rooms[client[c].room].messages)
                                        |-> Wire(rooms[client[c].room].messages[i])]
              /\ \A e \in Conns \ {c} : out'[e] = out[e]
              /\ UNCHANGED <<rooms, messages>>
        /\ JoinNotified(c) =>
              LET r == client[c].room
                  notice == joinNotice(client[c].name, local[c].msg.Timestamp) IN
              /\ c \in rooms[r].clients
              /\ \A e \in Conns :
                    out'[e] = IF e \in rooms[r].clients
                              THEN Append(out[e], Wire(notice))
                              ELSE out[e]
              /\ rooms'[r].messages[Len(rooms'[r].messages)] = notice
              /\ \A q \in DOMAIN rooms \ {r} : rooms'[q] = rooms[q]
              /\ rooms'[r].clients = rooms[r].clients
              /\ UNCHANGED messages
      ]_vars

\* C10 witness: a client has joined "general" a second time, by /join, and
\* a registered client that is in no room has received no join notice.
C10_Witness ==
    \E c \in Conns : \E d \in clients \ {c} :
        /\ pc[c] = "Active"
        /\ Len(SelectSeq(rooms[General].messages,
                LAMBDA m : m.Content = client[c].name \o <<" joined the room">>)) = 2
        /\ Len(SelectSeq(out[c],
                LAMBDA w : \E t \in 0..MaxTime :
                    w = Wire(joinNotice(client[c].name, t)))) >= 2
        /\ RoomsOf(d) = {}
        /\ out[d] = <<Logo>>

\* the steps of "nick" by session c
NickAccepted(c) == pc[c] = "Active" /\ pc'[c] = "NickRename"
NickRenamed(c) == pc[c] = "NickRename" /\ pc'[c] = "Broadcast"
NickBroadcast(c) ==
    pc[c] = "Broadcast" /\ local[c].ret = "Active" /\ pc'[c] = "Active"

\* a line is read, of an Active session, and no session moves
NickRefused ==
    /\ budget' = budget - 1
    /\ pc' = pc
    /\ \A d \in Conns : pc[d] = "Naming" => out'[d] = out[d]

\* the notice "<old> changed name to <new>"
nickNotice(old, new, ts) ==
    Message(MessageTypeSystem, <<>>, <<>>,
            old \o <<" changed name to ">> \o new, ts)

\* C11: /nick newName with a newName that passes validation makes newName
\* the caller's name, and the system message "<old> changed name to <new>"
\* is written to every client registered when it is broadcast and to nobody
\* else, and is appended to the global history.  With a newName that fails
\* validation the caller's name stays, nothing is broadcast, and the caller
\* alone gets an error message with the reason.
C11_Nick ==
    [][/\ \A c \in Conns :
           /\ NickAccepted(c) =>
                 /\ \E line \in NickLines :
                       local'[c].arg = Fields(TrimSpace(line))[2]
                 /\ validateName(local'[c].arg) = Nil
                 /\ UNCHANGED <<out, client, clients, messages, rooms>>
           /\ NickRenamed(c) =>
                 /\ client'[c].name = local[c].arg
                 /\ local'[c].msg =
                       nickNotice(client[c].name, local[c].arg, now)
                 /\ \A d \in Conns \ {c} : client'[d] = client[d]
                 /\ UNCHANGED <<out, clients, messages, rooms>>
           /\ NickBroadcast(c) =>
                 \E old \in NickNames \cup {Bob, AliceLower} :
                 \E ts \in 0..MaxTime :
                    LET notice == nickNotice(old, client[c].name, ts) IN
                    /\ messages' = Append(messages, notice)
                    /\ \A d \in clients \ peerClosed :
                          out'[d] = Append(out[d], Wire(notice))
                    /\ \A d \in Conns \ clients : out'[d] = out[d]
                    /\ UNCHANGED <<client, clients, rooms>>
       /\ NickRefused =>
             \E c \in Conns : \E line \in NickLines :
                LET err == validateName(Fields(TrimSpace(line))[2]) IN
                /\ pc[c] = "Active"
                /\ err # Nil
                /\ out'[c] = Append(out[c], Wire(errorMessage(err, now)))
                /\ \A d \in Conns \ {c} : out'[d] = out[d]
                /\ UNCHANGED <<client, clients, messages, rooms>>
      ]_vars

\* C11 witness: Al has become Bo; Bo and another registered client have the
\* notice, and it is the last message of the global history.
C11_Witness ==
    \E c \in clients : \E d \in clients \ {c} : \E ts \in 0..MaxTime :
        LET notice == nickNotice(Alice, Bob, ts) IN
        /\ client[c].name = Bob
        /\ pc[c] = "Active"
        /\ Received(c, Wire(notice))
        /\ Received(d, Wire(notice))
        /\ messages # <<>>
        /\ messages[Len(messages)] = notice

\* C11 witness of the failure: a client named Al has the "name already
\* taken" error and the global history is empty.
C11_WitnessRefused ==
    \E c \in clients : \E ts \in 0..MaxTime :
        /\ client[c].name = Alice
        /\ Received(c, Wire(errorMessage(<<"name already taken">>, ts)))
        /\ messages = <<>>

\* the notice "<name> has left our chat..."
leftNotice(name, ts) ==
    Message(MessageTypeSystem, <<>>, <<>>,
            name \o <<" has left our chat...">>, ts)

RejectLine == <<"Chat is full. Please try again later.", "\n">>

\* C13: a connection accepted while the registry holds maxClients entries or
\* more is sent the rejection line and nothing else, not even the banner, is
\* closed without a session, and is never in the Client Registry or in a
\* room's member set.
C13_Rejection ==
    [][/\ \A c \in (DOMAIN pc') \ Conns :
             isFull => /\ pc'[c] = "Rejected"
                       /\ out'[c] = <<RejectLine>>
                       /\ c \notin clients'
       /\ \A c \in Conns :
             pc[c] = "Rejected" =>
                /\ pc'[c] = "Rejected"
                /\ out'[c] = <<RejectLine>>
                /\ c \notin clients'
                /\ \A r \in DOMAIN rooms' : c \notin rooms'[r].clients
      ]_vars

\* C13 witness: the registry holds maxClients entries and the connection
\* accepted last has been rejected.
C13_Witness ==
    \E c \in Conns :
        /\ pc[c] = "Rejected"
        /\ Cardinality(clients) = maxClients
        /\ out[c] = <<RejectLine>>
        /\ c = Cardinality(Conns)

\* the state of the session at position p: Connecting, Naming, Active, Closed
Phase(p) ==
    IF p = "Connecting" THEN 0
    ELSE IF p \in {"Naming", "Register"} THEN 1
    ELSE IF p \in {"Closed", "Rejected"} THEN 3
    ELSE 2

\* whether text is the prompt that follows a refused name
IsPrompt(text) == text # <<>> /\ text[1] = "Invalid name: "

\* session c is accepted and its default join has not ended
BeforeJoined(c) ==
    pc[c] \in {"Connecting", "Naming", "Register", "JoinLock", "JoinReplay",
               "JoinRead", "JoinNotify"}

\* the replay of a history
Replay(msgs) == [i \in 1..Len(msgs) |-> Wire(msgs[i])]

\* C14: a session only moves forward through Connecting, Naming, Active and
\* Closed; the banner is the first thing written to an accepted connection;
\* and until the default join of a client has ended, all that is written to
\* its connection is the banner, a prompt for each refused name, then the
\* replay of the history of "general" and then its own "joined the room"
\* notice.
C14_SessionOrder ==
    [][\A c \in Conns :
        /\ Phase(pc'[c]) >= Phase(pc[c])
        /\ (pc'[c] # "Rejected" /\ out'[c] # <<>>) => out'[c][1] = Logo
        /\ (BeforeJoined(c) /\ out'[c] # out[c]) =>
              \/ /\ pc[c] = "Connecting" /\ pc'[c] = "Naming"
                 /\ out'[c] = <<Logo>>
              \/ /\ pc[c] = "Naming" /\ pc'[c] = "Naming"
                 /\ LET text == out'[c][Len(out'[c])] IN
                       /\ IsPrompt(text)
                       /\ out'[c] = Append(out[c], text)
              \/ /\ pc[c] = "JoinReplay" /\ pc'[c] = "JoinRead"
                 /\ out'[c] = out[c] \o Replay(rooms[General].messages)
              \/ /\ pc[c] = "JoinNotify" /\ pc'[c] = "Active"
                 /\ \E ts \in 0..MaxTime :
                       out'[c] = Append(out[c],
                                        Wire(joinNotice(client[c].name, ts)))
      ]_vars

\* the prompt that follows a name refused for the reason err
invalidPrompt(err) ==
    <<"Invalid name: ">> \o err \o <<"\n", "Please enter another name: ">>

\* a line is read and no session moves: in SpecSession, a refused name
NameRefused == budget' = budget - 1 /\ pc' = pc

\* C15: a name line that fails validation gets the "Invalid name: <reason>"
\* prompt written to its connection and to no other, leaves the session in
\* Naming, and leaves the Client Registry, the clients, the rooms' member
\* sets and the histories as they were; a session goes on from Naming to
\* registration only with a trimmed line that passes validation.
C15_NamingLoop ==
    [][/\ NameRefused =>
             \E c \in Conns : \E line \in SessionNames :
                LET err == validateName(TrimSpace(line)) IN
                /\ pc[c] = "Naming"
                /\ err # Nil
                /\ out'[c] = Append(out[c], invalidPrompt(err))
                /\ \A d \in Conns \ {c} : out'[d] = out[d]
                /\ UNCHANGED <<clients, client, rooms, messages, local>>
       /\ \A c \in Conns :
             (pc[c] = "Naming" /\ pc'[c] \notin {"Naming", "Closed"}) =>
                /\ pc'[c] = "Register"
                /\ \E line \in SessionNames : local'[c].arg = TrimSpace(line)
                /\ validateName(local'[c].arg) = Nil
                /\ UNCHANGED <<clients, client, rooms, messages, out>>
      ]_vars

\* C15 witness: a connection was refused the name of a registered client,
\* in another case, and the empty name, and is still in Naming.
C15_Witness ==
    \E c \in Conns : \E d \in clients :
        /\ pc[c] = "Naming"
        /\ EqualFold(client[d].name, Alice)
        /\ out[c] = <<Logo, invalidPrompt(<<"name already taken">>),
                      invalidPrompt(<<"name cannot be empty">>)>>
        /\ c \notin clients
        /\ RoomsOf(c) = {}

\* the keyword of a command line and the number of its arguments
Keyword(line) == TrimSlashPrefix(FirstField(TrimSpace(line)))
ArgCount(line) == Len(Fields(TrimSpace(line))) - 1

\* the commands the server registers
Registered == {KwHelp, KwList, KwNick, KwMsg, KwJoin, KwRooms, KwCreate, KwWho}

\* this step writes one error message with this content to connection c and
\* nothing to any other connection
ErrorOnlyTo(c, content) ==
    /\ out'[c] = Append(out[c], Wire(errorMessage(content, now)))
    /\ \A d \in Conns \ {c} : out'[d] = out[d]

\* this step leaves the registries, the clients, the rooms and the histories
\* as they are
NothingMutated == UNCHANGED <<clients, client, rooms, messages>>

\* C16: the reading of a line that starts with "/" and whose keyword is no
\* registered command writes one error message to the client that sent it
\* and to nobody else, leaves the session Active with nothing to broadcast,
\* and changes no registry, membership or history.
C16_UnknownCommand ==
    [][\A c \in Conns : \A line \in CmdLines :
        (Keyword(line) \notin Registered /\ ReadLine(c, line)) =>
            /\ ErrorOnlyTo(c,
                 <<"Unknown command. Type /help for available commands.">>)
            /\ pc' = pc
            /\ local' = local
            /\ NothingMutated
      ]_vars

\* C16 witness: a client has the error for an unknown command, another
\* registered client has no error, and no history holds anything but the
\* join notices.
C16_Witness ==
    \E c \in clients : \E d \in clients \ {c} : \E ts \in 0..MaxTime :
        /\ pc[c] = "Active"
        /\ Received(c, Wire(errorMessage(
               <<"Unknown command. Type /help for available commands.">>, ts)))
        /\ \A i \in 1..Len(out[d]) : \A t \in 0..MaxTime :
               out[d][i] # Wire(errorMessage(
                   <<"Unknown command. Type /help for available commands.">>, t))
        /\ messages = <<>>
        /\ Len(rooms[General].messages) = 2

\* the usage line of a command
Usage(keyword) ==
    IF keyword = KwNick THEN <<"usage: /nick <new_name>">>
    ELSE IF keyword = KwJoin THEN <<"usage: /join <room>">>
    ELSE IF keyword = KwCreate THEN <<"usage: /create <room>">>
    ELSE <<"usage: /msg <user> <message>">>

\* whether the line is a command with too few arguments
Underflow(line) ==
    \/ Keyword(line) \in {KwNick, KwJoin, KwCreate} /\ ArgCount(line) < 1
    \/ Keyword(line) = KwMsg /\ ArgCount(line) < 2

\* C17: the reading of /nick, /join or /create with no argument, or of /msg
\* with fewer than two, writes the usage error of the command to the caller
\* and to nobody else and leaves the Client Registry, the names, the room
\* registry, the memberships and the histories as they are.
C17_ArgumentUnderflow ==
    [][\A c \in Conns : \A line \in CmdLines :
        (Underflow(line) /\ ReadLine(c, line)) =>
            /\ ErrorOnlyTo(c, Usage(Keyword(line)))
            /\ pc' = pc
            /\ NothingMutated
      ]_vars

\* C17 witness: a client has the usage error of /msg, another registered
\* client has only the banner and join notices, and there is no room but
\* "general".
C17_Witness ==
    \E c \in clients : \E d \in clients \ {c} : \E ts \in 0..MaxTime :
        /\ Received(c, Wire(errorMessage(Usage(KwMsg), ts)))
        /\ \A i \in 1..Len(out[d]) :
              out[d][i] = Logo \/ Contains(out[d][i], <<" joined the room">>)
        /\ DOMAIN rooms = {General}
        /\ Cardinality(rooms[General].clients) = 2

\* connection d was sent no error message
NoErrorTo(d) ==
    \A i \in 1..Len(out[d]) :
        out[d][i] = Logo \/ Contains(out[d][i], <<" joined the room">>)

\* C18: a joinRoom for a room name that is not registered returns the error
\* "room does not exist" and touches nothing: the caller keeps its room and
\* its room field, no room is created, nothing is replayed or broadcast;
\* the error is then written to the caller and to nobody else, and the
\* session is Active again.
C18_JoinMissingRoom ==
    [][\A c \in Conns :
        /\ (JoinLock(c) /\ local[c].arg \notin DOMAIN rooms) =>
              /\ pc'[c] = "ReplyErr"
              /\ local'[c].text = <<"room does not exist">>
              /\ NothingMutated
              /\ UNCHANGED <<out, mutex>>
        /\ (ReplyErr(c) /\ local[c].text = <<"room does not exist">>) =>
              /\ pc'[c] = "Active"
              /\ ErrorOnlyTo(c, <<"room does not exist">>)
              /\ NothingMutated
      ]_vars

\* C18 witness: a client in "general" has the error "room does not exist",
\* "general" is the only room, and another member of it was sent no error.
C18_Witness ==
    \E c \in clients : \E d \in clients \ {c} : \E ts \in 0..MaxTime :
        /\ pc[c] = "Active"
        /\ Received(c, Wire(errorMessage(<<"room does not exist">>, ts)))
        /\ client[c].room = General
        /\ RoomsOf(c) = {General}
        /\ DOMAIN rooms = {General}
        /\ d \in rooms[General].clients
        /\ NoErrorTo(d)

\* C19: a createRoom for a room name that is registered returns the error
\* "room already exists" with the mutex free and touches nothing: the room
\* registry, the member sets, the histories and the caller's membership
\* stay; the error is then written to the caller and to nobody else, the
\* session is Active again and does not hold the mutex.
C19_CreateExistingRoom ==
    [][\A c \in Conns :
        /\ (CreateLock(c) /\ local[c].arg \in DOMAIN rooms) =>
              /\ pc'[c] = "ReplyErr"
              /\ local'[c].text = <<"room already exists">>
              /\ NothingMutated
              /\ UNCHANGED out
              /\ mutex' = 0
        /\ (ReplyErr(c) /\ local[c].text = <<"room already exists">>) =>
              /\ pc'[c] = "Active"
              /\ ErrorOnlyTo(c, <<"room already exists">>)
              /\ NothingMutated
              /\ mutex' # c
      ]_vars

\* C19 witness: a client in "general" has the error "room already exists",
\* the mutex is free, "general" is the only room, and another member of it
\* was sent no error.
C19_Witness ==
    \E c \in clients : \E d \in clients \ {c} : \E ts \in 0..MaxTime :
        /\ pc[c] = "Active"
        /\ Received(c, Wire(errorMessage(<<"room already exists">>, ts)))
        /\ mutex = 0
        /\ RoomsOf(c) = {General}
        /\ DOMAIN rooms = {General}
        /\ d \in rooms[General].clients
        /\ NoErrorTo(d)

\* C20: a write that fails does not stop a broadcast.  The global broadcast
\* and the room broadcast of a join write the message to every client of
\* the target set whose connection is open, whatever the other connections
\* are; the fan-out of a chat line goes on after a failed write and ends
\* with the line written to every member that stayed in the room with an
\* open connection; and the sender goes on as after any broadcast, with no
\* error written to it.
C20_FanOutProgress ==
    [][\A c \in Conns :
        LET line == Wire(local[c].msg) IN
        /\ Broadcast(c) =>
              /\ \A d \in clients \ peerClosed : out'[d] = Append(out[d], line)
              /\ \A d \in Conns \ (clients \ peerClosed) : out'[d] = out[d]
              /\ pc'[c] = local[c].ret
        /\ JoinNotify(c) =>
              /\ \A d \in rooms[client[c].room].clients \ peerClosed :
                    out'[d] = Append(out[d], line)
              /\ \A d \in Conns \ (rooms[client[c].room].clients \ peerClosed) :
                    out'[d] = out[d]
              /\ pc'[c] = "Active"
        /\ ChatWrite(c) =>
              /\ pc'[c] = "ChatFanout"
              /\ LET d == local[c].target IN
                    /\ d \in local[c].visited
                    /\ out'[d] = IF d \in peerClosed THEN out[d]
                                 ELSE Append(out[d], line)
                    /\ \A e \in Conns \ {d} : out'[e] = out[e]
        /\ ChatDone(c) =>
              /\ \A d \in (local[c].start \cap rooms[client[c].room].clients)
                          \ peerClosed : Received(d, line)
              /\ pc'[c] = "Active"
              /\ UNCHANGED out
      ]_vars

\* C20 witness: the fan-out of a chat line has ended; a member of the room
\* whose client had closed its end was not written the line, and the sender
\* has it and is Active.
C20_Witness ==
    \E c \in clients : \E d \in (clients \cap peerClosed) \ {c} :
        \E i \in 1..Len(rooms[General].messages) :
            LET msg == rooms[General].messages[i] IN
            /\ msg.Type = MessageTypeChat
            /\ msg.From = client[c].name
            /\ pc[c] = "Active"
            /\ d \in rooms[General].clients
            /\ Received(d, Wire(joinNotice(client[d].name, 0)))
            /\ ~Received(d, Wire(msg))
            /\ Received(c, Wire(msg))

\* C20 witness of the global broadcast: a rename was broadcast while a
\* registered client had closed its end; the renamed client has the notice
\* and the other has not.
C20_WitnessGlobal ==
    \E c \in clients : \E d \in (clients \cap peerClosed) \ {c} :
        /\ messages # <<>>
        /\ pc[c] = "Active"
        /\ Received(c, Wire(messages[1]))
        /\ ~Received(d, Wire(messages[1]))

\* C21: no room is ever deleted: "general" is in the room registry in every
\* state, and a room name that is in the registry is in it after every
\* step, whatever its member set is.
C21_RoomsStay ==
    /\ [](General \in DOMAIN rooms)
    /\ [][\A r \in DOMAIN rooms : r \in DOMAIN rooms']_vars

\* C21 witness: the only member of "general" has left and its session has
\* ended; the room is registered with no member and with its history.
C21_Witness ==
    \E c \in Conns :
        /\ pc[c] = "Closed"
        /\ client[c].room = General
        /\ General \in DOMAIN rooms
        /\ rooms[General].clients = {}
        /\ rooms[General].messages # <<>>

\* C21 witness of a created room: "test" is registered with no member.
C21_WitnessCreated ==
    /\ Test \in DOMAIN rooms
    /\ rooms[Test].clients = {}
    /\ rooms[General].clients # {}

\* whether text is the line of a system message or of a chat message
IsSystemText(text) ==
    Len(text) > 6 /\ text[1] = "[" /\ text[5] = "]" /\ text[6] = " "
IsChatText(text) ==
    /\ Len(text) > 7 /\ text[1] = "[" /\ text[5] = "]" /\ text[6] = "["
    /\ text[7] \notin {"ERROR", "PM from "}

\* the lines written to connection d since its last join inserted it into
\* room r: the chat and system messages d was sent as a member of r
DeliveredIn(d, r) ==
    IF joinMark[d].room # r THEN {}
    ELSE {out[d][i] : i \in (joinMark[d].outLen + 1)..Len(out[d])}
         \cap {text \in {out[d][i] : i \in 1..Len(out[d])} :
                    IsSystemText(text) \/ IsChatText(text)}

\* C22: when the replay of a join ends, the joiner has on its connection
\* every chat and system message that was written before to a member of the
\* room: join notices, name-change notices, departure notices and chat
\* lines.
C22_ReplayAll ==
    [][\A c \in Conns :
        JoinReplayed(c) =>
            \A d \in Conns \ {c} :
                \A text \in DeliveredIn(d, client[c].room) :
                    \E i \in 1..Len(out'[c]) : out'[c][i] = text
      ]_vars

\* the join notices and the chat lines alone: what joinRoom replays when no
\* chat line is sent while another is being stored
C22_ReplayRoomHistory ==
    [][\A c \in Conns :
        JoinReplayed(c) =>
            \A d \in Conns \ {c} :
                \A text \in DeliveredIn(d, client[c].room) :
                    Contains(text, <<" joined the room">>) =>
                        \E i \in 1..Len(out'[c]) : out'[c][i] = text
      ]_vars

\* the reply to a command that is not registered
UnknownCommand == <<"Unknown command. Type /help for available commands.">>

\* session c has answered a line of its client as an unknown command; in
\* SpecQuit that line is /quit
QuitAnswered(c) ==
    \E ts \in 0..MaxTime : Received(c, Wire(errorMessage(UnknownCommand, ts)))

\* C23: a session that has read /quit from its client comes to its end,
\* with the client out of the Client Registry and of every member set.
C23_Quit ==
    \A c \in 1..MaxConns :
        (c \in Conns /\ QuitAnswered(c))
        ~> (/\ c \in Conns
            /\ pc[c] = "Closed"
            /\ c \notin clients
            /\ RoomsOf(c) = {})

\* a session whose read has failed does come to its end in SpecQuit
C23_ReadFailLeaves ==
    \A c \in 1..MaxConns :
        (c \in Conns /\ pc[c] = "Leaving")
        ~> (c \in Conns /\ pc[c] = "Closed" /\ c \notin clients)

\* C24: the reading of a line that is empty after the trim writes nothing
\* to any connection, leaves the session where it is and changes no
\* registry, client, membership or history.
C24_EmptyLine ==
    [][\A c \in Conns : \A line \in EmptyLines :
        (TrimSpace(line) = <<>> /\ ReadLine(c, line)) =>
            UNCHANGED <<pc, mutex, clients, client, rooms, messages, out,
                        local>>
      ]_vars

\* C24 witness: two clients are registered and Active and every read of
\* the run is spent; the third read was of an empty line of one of them,
\* and the connections and the history hold the join notices alone.
C24_Witness ==
    /\ budget = 0
    /\ Cardinality(clients) = 2
    /\ \A c \in clients : pc[c] = "Active"
    /\ \A c \in Conns \ clients : pc[c] \in {"Connecting", "Naming"}
    /\ \A c \in Conns : NoErrorTo(c)
    /\ Len(rooms[General].messages) = 2
    /\ messages = <<>>

\* the name in lower case
Lower(name) == [i \in 1..Len(name) |-> ToLower(name[i])]

\* the rules of a name, in the order they are applied, and their errors
NameRuleBroken(name, k) ==
    IF k = 1 THEN Len(name) = 0
    ELSE IF k = 2 THEN Len(name) < 2
    ELSE IF k = 3 THEN Len(name) > 20
    ELSE \E d \in clients : Lower(client[d].name) = Lower(name)

NameRuleError(k) ==
    IF k = 1 THEN <<"name cannot be empty">>
    ELSE IF k = 2 THEN <<"name too short (minimum 2 characters)">>
    ELSE IF k = 3 THEN <<"name too long (maximum 20 characters)">>
    ELSE <<"name already taken">>

\* the error of the first rule the name breaks, or Nil
FirstBroken(name) ==
    LET broken == {k \in 1..4 : NameRuleBroken(name, k)} IN
    IF broken = {} THEN Nil
    ELSE NameRuleError(CHOOSE k \in broken : \A j \in broken : k <= j)

\* C25: for every candidate and every registry, validateName returns the
\* error of the first rule the trimmed candidate breaks, in the order empty,
\* shorter than 2, longer than 20, equal to a registered name but for the
\* case, and returns no error exactly when it breaks none; the naming loop
\* acts on that result, and the call leaves the Client Registry and the
\* clients as they are.
C25_ValidateName ==
    [][\A line \in ValidateNames :
        /\ validateName(line) = FirstBroken(TrimSpace(line))
        /\ (validateName(line) = Nil) =
              (\A k \in 1..4 : ~NameRuleBroken(TrimSpace(line), k))
        /\ \A c \in Conns :
              ReadName(c, line) =>
                 /\ UNCHANGED <<clients, client, rooms, messages>>
                 /\ IF FirstBroken(TrimSpace(line)) = Nil
                    THEN /\ pc'[c] = "Register"
                         /\ local'[c].arg = TrimSpace(line)
                         /\ UNCHANGED out
                    ELSE /\ pc'[c] = "Naming"
                         /\ out'[c] = Append(out[c],
                               invalidPrompt(FirstBroken(TrimSpace(line))))
      ]_vars

\* C25 witness: a client is registered under a name of 20 characters that
\* came with spaces around it; another connection was refused a name of 21
\* characters as too long and the registered name in upper case as taken.
C25_Witness ==
    \E c \in clients : \E d \in Conns \ clients :
        /\ client[c].name = Name20
        /\ pc[d] = "Naming"
        /\ out[d] = <<Logo,
                      invalidPrompt(<<"name too long (maximum 20 characters)">>),
                      invalidPrompt(<<"name already taken">>)>>

\* C25 witness of the first two rules: a connection was refused the empty
\* name as empty and a name of one character as too short.
C25_WitnessShort ==
    \E d \in Conns \ clients :
        /\ pc[d] = "Naming"
        /\ out[d] = <<Logo,
                      invalidPrompt(<<"name cannot be empty">>),
                      invalidPrompt(<<"name too short (minimum 2 characters)">>)>>

\* the departure notices of the global history that name n
LeftNotices(n) ==
    SelectSeq(messages,
              LAMBDA m : /\ m.Type = MessageTypeSystem
                         /\ m.Content = n \o <<" has left our chat...">>)

\* every departure notice of the global history
AllLeftNotices ==
    SelectSeq(messages,
              LAMBDA m : /\ m.Type = MessageTypeSystem
                         /\ Contains(m.Content, <<" has left our chat...">>))

\* the connections whose session has ended after it had joined "general"
ClosedAfterActive ==
    {c \in Conns : pc[c] = "Closed" /\ joinMark[c].room # <<>>}

\* C26: the disconnect path runs once for a connection that was Active and
\* never for any other.  The global history holds one departure notice for
\* each connection that has ended after being Active and no other; such a
\* connection is out of the Client Registry and of every member set; an
\* ended session stays ended; the path is entered from Active alone and
\* removes its own client alone; and a connection that is rejected or whose
\* name read fails changes no registry, membership or history.
C26_DisconnectOnce ==
    /\ [](/\ Len(AllLeftNotices) = Cardinality(ClosedAfterActive)
          /\ \A n \in {client[c].name : c \in Conns} :
                Len(LeftNotices(n)) =
                    Cardinality({c \in ClosedAfterActive : client[c].name = n})
          /\ \A c \in Conns :
                pc[c] \in {"Closed", "Rejected"} =>
                    c \notin clients /\ RoomsOf(c) = {})
    /\ [][/\ \A c \in Conns :
               /\ pc[c] \in {"Closed", "Rejected"} => pc'[c] = pc[c]
               /\ (pc[c] # "Leaving" /\ pc'[c] = "Leaving") => pc[c] = "Active"
               /\ Disconnect(c) =>
                     /\ c \in clients
                     /\ clients' = clients \ {c}
                     /\ \A r \in DOMAIN rooms :
                           rooms'[r].clients = rooms[r].clients \ {c}
                     /\ UNCHANGED messages
               /\ NameReadFail(c) =>
                     /\ pc'[c] = "Closed"
                     /\ UNCHANGED <<clients, client, rooms, messages, out>>
          /\ \A d \in (DOMAIN pc') \ Conns :
                UNCHANGED <<clients, rooms, messages>>
         ]_vars

\* C26 witness: a client that was Active has left and its session has
\* ended, with one departure notice in the global history; a connection
\* that came while the registry was full was rejected.
C26_Witness ==
    \E c \in ClosedAfterActive : \E d \in Conns :
        /\ pc[d] = "Rejected"
        /\ c \notin clients
        /\ Len(AllLeftNotices) = 1
        /\ Len(LeftNotices(client[c].name)) = 1

\* C26 witness of the naming loop: the name read of a connection failed and
\* its session has ended; the global history is empty.
C26_WitnessNaming ==
    \E c \in Conns :
        /\ pc[c] = "Closed"
        /\ joinMark[c].room = <<>>
        /\ messages = <<>>
        /\ Cardinality(clients) = Preload

\* a step of session c on the paths that take no lock: the chat path reads
\* and writes the history of the room and ranges over its member set, "nick"
\* reads the Client Registry and writes the name, "who" reads the member set
\* and the names
UnlockedAccess(c) ==
    \/ ChatAppend(c)
    \/ ChatPick(c)
    \/ NickRename(c)
    \/ \E line \in {Hello, LineNickBob, LineNick, LineWho} :
          ReadLine(c, line) /\ client[c].room # <<>>

\* C27: a session reads and writes the Client Registry, the member sets,
\* the histories and the names under the mutex: no step of the chat path,
\* of "who" or of "nick" is taken while another session is inside a
\* critical section.
C27_LockDiscipline ==
    [][\A c \in Conns : UnlockedAccess(c) => mutex \in {0, c}]_vars

\* the steps that the code takes under the mutex are taken by its holder
C27_LockedSteps ==
    [][\A c \in Conns :
        (JoinReplay(c) \/ JoinRead(c) \/ JoinNotify(c)) => mutex = c
      ]_vars

\* the positions at which a session calls s.mutex.Lock()
LockCalls == {"Register", "JoinLock", "CreateLock", "Broadcast", "Leaving",
              "ListLock", "RoomsLock", "MsgLock"}

\* C28: no session calls Lock on the mutex while it holds it.
C28_NoSelfLock ==
    \A c \in Conns : mutex = c => pc[c] \notin LockCalls

\* C28, the progress it stands for: a mutex that is held is released.
C28_LockReleased == (mutex # 0) ~> (mutex = 0)

\* whether history h is a prefix of history g
IsPrefix(h, g) == Len(h) <= Len(g) /\ SubSeq(g, 1, Len(h)) = h

\* whether history h holds message msg
Holds(h, msg) == \E i \in 1..Len(h) : h[i] = msg

\* C29: the history of a room only grows at its end, and when a broadcast
\* to a room has finished, of a chat line or of a join notice, the history
\* of the room holds its message.
C29_HistoryAppendOnly ==
    [][/\ \A r \in DOMAIN rooms :
             IsPrefix(rooms[r].messages, rooms'[r].messages)
       /\ \A c \in Conns :
             (ChatDone(c) \/ JoinNotify(c)) =>
                 Holds(rooms'[client[c].room].messages, local[c].msg)
      ]_vars

\* the same for the steps of a join alone
C29_JoinAppends ==
    [][\A c \in Conns :
        JoinNotify(c) =>
            /\ Holds(rooms'[client[c].room].messages, local[c].msg)
            /\ Len(rooms'[client[c].room].messages) =
                   Len(local[c].snap) + 1
      ]_vars

\* the writes on connection c since its last join inserted it into a room
SinceJoin(c) == SubSeq(out[c], joinMark[c].outLen + 1, Len(out[c]))

\* how often text occurs in a sequence of texts
Count(texts, text) == Len(SelectSeq(texts, LAMBDA w : w = text))

\* how many chat messages with this line were sent to room r: those of its
\* history and those a session is about to store
SentTo(r, text) ==
    Len(SelectSeq(rooms[r].messages, LAMBDA m : Wire(m) = text))
    + Cardinality({d \in Conns : /\ pc[d] = "ChatAppend"
                                 /\ client[d].room = r
                                 /\ Wire(local[d].msg) = text})

\* C30: a client that has joined a room has a chat line that was sent to
\* the room once on its connection at most once since the join: the line is
\* not written to it both by the replay of the join and by the fan-out of
\* the sender.
C30_NoDuplicate ==
    \A c \in Conns :
        joinMark[c].room # <<>> =>
            \A i \in 1..Len(SinceJoin(c)) :
                LET text == SinceJoin(c)[i] IN
                (IsChatText(text) /\ SentTo(joinMark[c].room, text) = 1) =>
                    Count(SinceJoin(c), text) = 1

\* the same for the sender of the line, which is in the room throughout
C30_SenderOnce ==
    \A c \in Conns :
        (pc[c] = "ChatFanout" /\ SentTo(client[c].room, Wire(local[c].msg)) = 1)
            => Count(out[c], Wire(local[c].msg)) <= 1

\* C31: whenever the mutex is free, a connection is in the member set of a
\* room exactly when its client is in the Client Registry and has that room
\* as its room field; and no member set ever holds a connection that is
\* not in the Client Registry.
C31_MembershipAgrees ==
    /\ mutex = 0 =>
          \A c \in Conns : \A r \in DOMAIN rooms :
              (c \in rooms[r].clients) <=>
                  (c \in clients /\ client[c].room = r)
    /\ \A r \in DOMAIN rooms : rooms[r].clients \subseteq clients

\* C31 witness: the mutex is free; a client that has joined "general" twice
\* is a member of it, and a client that is registered and has not joined
\* yet has no room and is in no member set.
C31_Witness ==
    \E c \in clients : \E d \in clients \ {c} :
        /\ mutex = 0
        /\ pc[c] = "Active"
        /\ client[c].room = General
        /\ c \in rooms[General].clients
        /\ Len(rooms[General].messages) = 2
        /\ pc[d] = "JoinLock"
        /\ client[d].room = <<>>
        /\ RoomsOf(d) = {}

\* C31 witness of a departure: the mutex is free; a client that has left
\* keeps "general" as its room field and is in no member set and not in the
\* Client Registry.
C31_WitnessLeft ==
    \E c \in Conns \ clients :
        /\ mutex = 0
        /\ pc[c] = "Closed"
        /\ client[c].room = General
        /\ RoomsOf(c) = {}
        /\ clients # {}

\* the disconnect path has taken the client of connection d out of the
\* Client Registry and of its room
Removed(d) ==
    \/ pc[d] = "Closed" /\ joinMark[d].room # <<>>
    \/ pc[d] = "Broadcast" /\ local[d].ret = "Closed"

\* C32: once the disconnect path has removed a client, no session calls
\* Write on its connection: not the broadcast of its own departure notice,
\* not a private message, and not the fan-out of a chat line that another
\* session has in progress.
C32_NoWriteAfterClose ==
    [][\A d \in Conns :
        Removed(d) =>
            /\ out'[d] = out[d]
            /\ \A c \in Conns : ~(ChatWrite(c) /\ local[c].target = d)
      ]_vars

\* the same for the writes made under the mutex: the global broadcast, the
\* join notice, the replay and the private message
C32_LockedWrites ==
    [][\A d \in Conns :
        (Removed(d) /\ \A c \in Conns : ~ChatWrite(c)) => out'[d] = out[d]
      ]_vars

\* connection c is accepted and its client is not in the Client Registry
\* yet
InNaming(c) == pc[c] \in {"Connecting", "Naming", "Register"}

\* the errors of validateName
NameErrors == {NameRuleError(k) : k \in 1..4}

\* C33: all that is written to a connection whose client is not registered
\* yet is the banner, by its own session, and the prompt for a name its own
\* session has refused: no chat line, join notice, global notice or private
\* message of another session is written to it.
C33_NamingQuiet ==
    [][\A c \in Conns :
        (InNaming(c) /\ out'[c] # out[c]) =>
            \/ WriteLogo(c) /\ out'[c] = <<Logo>>
            \/ \E line \in NamingNames : \E err \in NameErrors :
                  /\ ReadName(c, line)
                  /\ out'[c] = Append(out[c], invalidPrompt(err))
      ]_vars

\* C33 witness: a connection at the name prompt has the banner alone, and
\* two registered clients have a private message.
C33_Witness ==
    \E d \in Conns : \E c \in clients : \E e \in clients \ {c} :
        /\ pc[d] = "Naming"
        /\ out[d] = <<Logo>>
        /\ \E i \in 1..Len(out[c]) :
              /\ Len(out[c][i]) > 7 /\ out[c][i][7] = "PM from "
              /\ Received(e, out[c][i])

\* C33 witness of the global broadcast: a connection at the name prompt has
\* the banner and the prompt for a name that was taken; the client of that
\* name has left, and its departure notice is in the global history.
C33_WitnessGlobal ==
    \E d \in Conns :
        /\ pc[d] = "Naming"
        /\ out[d] = <<Logo, invalidPrompt(<<"name already taken">>)>>
        /\ Len(AllLeftNotices) = 1

\* C33 witness of the room broadcast: a connection at the name prompt has
\* the banner alone, and a member of "general" has a chat line.
C33_WitnessChat ==
    \E d \in Conns : \E c \in clients :
        /\ pc[d] = "Naming"
        /\ out[d] = <<Logo>>
        /\ pc[c] = "Active"
        /\ \E i \in 1..Len(out[c]) : IsChatText(out[c][i])

\* whether text is the line of a private message or of an error message
IsPrivateText(text) == Len(text) > 7 /\ text[6] = "[" /\ text[7] = "PM from "
IsErrorText(text) == Len(text) > 7 /\ text[6] = "[" /\ text[7] = "ERROR"

\* this step leaves the global history and every room's history as they are
HistoriesStay ==
    /\ messages' = messages
    /\ DOMAIN rooms' = DOMAIN rooms
    /\ \A r \in DOMAIN rooms : rooms'[r].messages = rooms[r].messages

\* C34: no history ever holds a private message or an error message; a
\* step of "msg", found or not, and a step that writes a private message
\* or an error message to a connection leave the global history and every
\* room's history as they are; and the replay of a join writes no private
\* message and no error message.
C34_NoTrace ==
    /\ [](/\ \A i \in 1..Len(messages) :
                messages[i].Type \notin {MessageTypePrivate, MessageTypeError}
          /\ \A r \in DOMAIN rooms : \A i \in 1..Len(rooms[r].messages) :
                rooms[r].messages[i].Type
                    \notin {MessageTypePrivate, MessageTypeError})
    /\ [][\A c \in Conns :
           /\ (sendPrivateMessage(c) \/ ReplyErr(c)) => HistoriesStay
           /\ (/\ Len(out'[c]) > Len(out[c])
               /\ \/ IsPrivateText(out'[c][Len(out'[c])])
                  \/ IsErrorText(out'[c][Len(out'[c])])) => HistoriesStay
           /\ JoinReplay(c) =>
                 \A i \in (Len(out[c]) + 1)..Len(out'[c]) :
                     ~IsPrivateText(out'[c][i]) /\ ~IsErrorText(out'[c][i])
         ]_vars

\* C34 witness: two clients have a private message; a third client has
\* joined "general" after it was delivered, is Active, and was written no
\* private message; the histories hold the three join notices alone.
C34_Witness ==
    \E c \in clients : \E e \in clients \ {c} :
        /\ pc[e] = "Active"
        /\ \A k \in 1..Len(out[e]) : ~IsPrivateText(out[e][k])
        /\ \E i \in 1..Len(out[c]) : \E j \in 1..Len(out[c]) :
              /\ i < j
              /\ IsPrivateText(out[c][i])
              /\ out[c][j] = Wire(joinNotice(client[e].name, 0))
        /\ Len(rooms[General].messages) = 3
        /\ messages = <<>>

\* C34 witness of the error: a client has the "not found" error, and the
\* histories hold join notices alone.
C34_WitnessError ==
    \E c \in clients :
        /\ pc[c] = "Active"
        /\ \E i \in 1..Len(out[c]) : IsErrorText(out[c][i])
        /\ messages = <<>>
        /\ \A i \in 1..Len(rooms[General].messages) :
              rooms[General].messages[i].Type = MessageTypeSystem

\* whether a message is a global notice: a name change or a departure
IsGlobalNotice(m) ==
    /\ m.Type = MessageTypeSystem
    /\ \/ Contains(m.Content, <<" changed name to ">>)
       \/ Contains(m.Content, <<" has left our chat...">>)

\* whether a message is room-scoped: a chat message or a join notice
IsRoomScoped(m) ==
    \/ m.Type = MessageTypeChat
    \/ m.Type = MessageTypeSystem /\ Contains(m.Content, <<" joined the room">>)

\* the histories of the rooms other than r stay as they are
OtherHistoriesStay(r) ==
    /\ DOMAIN rooms' = DOMAIN rooms
    /\ \A q \in DOMAIN rooms \ {r} : rooms'[q].messages = rooms[q].messages

\* C35: the global history holds name-change and departure notices alone and
\* a room's history holds chat messages and join notices alone.  A step of
\* Server.broadcast appends its notice to the global history and leaves every
\* room's history as it is; the append of a chat message or of a join notice
\* puts the message at the end of the history of the sender's room and leaves
\* the global history and the histories of the other rooms as they are.
C35_HistoriesApart ==
    /\ [](/\ \A i \in 1..Len(messages) :
                IsGlobalNotice(messages[i]) /\ ~IsRoomScoped(messages[i])
          /\ \A r \in DOMAIN rooms : \A i \in 1..Len(rooms[r].messages) :
                /\ IsRoomScoped(rooms[r].messages[i])
                /\ ~IsGlobalNotice(rooms[r].messages[i]))
    /\ [][\A c \in Conns :
           /\ Broadcast(c) =>
                 /\ IsGlobalNotice(local[c].msg)
                 /\ messages' = Append(messages, local[c].msg)
                 /\ DOMAIN rooms' = DOMAIN rooms
                 /\ \A r \in DOMAIN rooms :
                       rooms'[r].messages = rooms[r].messages
           /\ (ChatAppend(c) \/ JoinNotify(c)) =>
                 LET r == client[c].room IN
                 /\ IsRoomScoped(local[c].msg)
                 /\ Len(rooms'[r].messages) > 0
                 /\ rooms'[r].messages[Len(rooms'[r].messages)] = local[c].msg
                 /\ OtherHistoriesStay(r)
                 /\ messages' = messages
         ]_vars

\* C35 witness: the global history holds one name-change notice and nothing
\* else, while the history of "general" holds a chat message and a join
\* notice and no name-change notice.
C35_Witness ==
    /\ Len(messages) = 1
    /\ Contains(messages[1].Content, <<" changed name to ">>)
    /\ \E i \in 1..Len(rooms[General].messages) :
          rooms[General].messages[i].Type = MessageTypeChat
    /\ \E i \in 1..Len(rooms[General].messages) :
          Contains(rooms[General].messages[i].Content, <<" joined the room">>)

\* C35 witness of the departure: the global history holds a departure notice
\* alone, and the history of "general" holds the join notices of two
\* clients alone.
C35_WitnessLeft ==
    /\ Len(messages) = 1
    /\ Contains(messages[1].Content, <<" has left our chat...">>)
    /\ Len(rooms[General].messages) = 2
    /\ \A i \in 1..2 :
          Contains(rooms[General].messages[i].Content, <<" joined the room">>)

====
